---- MODULE Spec2Model ----
(***************************************************************************)
(* Contact directory (AddressBook / Record / Phone / Name) of the          *)
(* assistant bot.  Strings are sequences of one-character strings so that  *)
(* strip(), lower(), len() and the digit filter are computed, not assumed. *)
(***************************************************************************)
EXTENDS Integers, Sequences, FiniteSets, TLC

\* recs: the Record objects constructed so far (a record's id is its index)
\* data: AddressBook.data, the dict in insertion order: <<[key, rec]>>
\* call: the operation in progress, or Idle between two operations
\* ret:  what the operation returned or raised
\* pre:  recs and data as they were when the operation was called
VARIABLES recs, data, call, ret, pre

vars == <<recs, data, call, ret, pre>>

(* ------------------------------ bounds -------------------------------- *)

\* number of Record objects ever constructed
MaxRecords == 2
\* length of one record's phone list
MaxPhones == 2
\* largest max_length given to truncate_string
MaxTruncateLength == 16

(* ------------------------- program constants -------------------------- *)

NAME_MIN_LENGTH == 2
NAME_MAX_LENGTH == 50
MAX_DISPLAY_NAME_LEN == 15

MSG_CONTACT_ADDED == "Contact added."
MSG_CONTACT_DELETED == "Contact deleted."
MSG_NO_MATCHES == "No matches found."
MSG_PHONE_ADDED == "Phone added."
MSG_PHONE_UPDATED == "Phone updated."
MSG_PHONE_DELETED == "Phone deleted."
MSG_BIRTHDAY_ADDED == "Birthday added."
MSG_BIRTHDAY_UPDATED == "Birthday updated."

\* AddressBook.get_upcoming_birthdays: the default of upcoming_period_days
UPCOMING_PERIOD_DAYS == 7

(* --------------------------- string helpers --------------------------- *)

Whitespace == {" ", "\t", "\n"}
Digits == {"0", "1", "2", "3", "4", "5", "6", "7", "8", "9"}
UpperCase == <<"A", "B", "C", "D", "E", "L", "O">>
LowerCase == <<"a", "b", "c", "d", "e", "l", "o">>

\* str.lower() on one character
LowerChar(c) ==
    IF \E i \in 1..Len(UpperCase) : UpperCase[i] = c
    THEN LowerCase[CHOOSE i \in 1..Len(UpperCase) : UpperCase[i] = c]
    ELSE c

\* str.lower()
Lower(s) == [i \in 1..Len(s) |-> LowerChar(s[i])]

\* str.strip()
Strip(s) ==
    IF \A i \in 1..Len(s) : s[i] \in Whitespace
    THEN <<>>
    ELSE LET first == CHOOSE i \in 1..Len(s) :
                          /\ s[i] \notin Whitespace
                          /\ \A j \in 1..(i - 1) : s[j] \in Whitespace
             last  == CHOOSE i \in 1..Len(s) :
                          /\ s[i] \notin Whitespace
                          /\ \A j \in (i + 1)..Len(s) : s[j] \in Whitespace
         IN SubSeq(s, first, last)

IsDigit(c) == c \in Digits

\* re.sub(r"\D", "", phone)
DigitsOnly(s) == SelectSeq(s, IsDigit)

\* s[:n]
Prefix(s, n) == SubSeq(s, 1, IF n < Len(s) THEN n ELSE Len(s))

\* s[-n:] for 0 < n
Suffix(s, n) == IF n >= Len(s) THEN s ELSE SubSeq(s, Len(s) - n + 1, Len(s))

Ellipsis == <<".", ".", ".">>

\* truncate_string cutting to max_length and putting the suffix on top of it
truncate_string_suffix_on_top(string, max_length, suffix, include_suffix_in_max_length) ==
    IF string = <<>> /\ suffix = <<>> THEN <<>>
    ELSE IF Len(string) <= max_length THEN string
    ELSE IF max_length <= 0 /\ include_suffix_in_max_length THEN <<>>
    ELSE Prefix(string, IF max_length < 0 THEN Len(string) + max_length
                                         ELSE max_length) \o suffix

\* utils.text_utils.truncate_string
truncate_string(string, max_length, suffix, include_suffix_in_max_length) ==
    IF string = <<>> /\ suffix = <<>> THEN <<>>
    ELSE IF Len(string) <= max_length THEN string
    ELSE IF ~include_suffix_in_max_length
         THEN Prefix(string, IF max_length < 0 THEN Len(string) + max_length
                                              ELSE max_length) \o suffix
    ELSE IF max_length <= 0 THEN <<>>
    ELSE IF Len(suffix) >= max_length THEN Suffix(suffix, max_length)
    ELSE Prefix(string, max_length - Len(suffix)) \o suffix

\* the characters in code point order
CodePoints ==
    <<"\t", "\n", " ", "+", "-", ".",
      "0", "1", "2", "3", "4", "5", "6", "7", "8", "9", ":", ";",
      "A", "B", "C", "D", "E", "L", "O", "a", "b", "c", "d", "e", "l", "o">>

\* ord(c), up to an order-preserving renumbering
Ord(c) == CHOOSE i \in 1..Len(CodePoints) : CodePoints[i] = c

\* a < b on str: lexicographic by code point, a proper prefix first
StrLess(a, b) ==
    \E i \in 1..Len(b) :
        /\ i <= Len(a) + 1
        /\ \A j \in 1..(i - 1) : a[j] = b[j]
        /\ IF i = Len(a) + 1 THEN TRUE ELSE Ord(a[i]) < Ord(b[i])

\* t in s
Contains(s, t) ==
    \E i \in 0..(Len(s) - Len(t)) : SubSeq(s, i + 1, i + Len(t)) = t

\* s.ljust(width)
LJust(s, width) ==
    s \o [i \in 1..(IF width > Len(s) THEN width - Len(s) ELSE 0) |-> " "]

RECURSIVE Join(_, _)
\* sep.join(parts)
Join(sep, parts) ==
    IF parts = <<>> THEN <<>>
    ELSE IF Len(parts) = 1 THEN parts[1]
    ELSE parts[1] \o sep \o Join(sep, Tail(parts))

\* max(xs) of a non-empty sequence of numbers
MaxOf(xs) == CHOOSE m \in {xs[i] : i \in 1..Len(xs)} : \A i \in 1..Len(xs) : xs[i] <= m

(* ------------------------------ results ------------------------------- *)

\* a call that returned `val`
Ok(val) == [kind |-> "ok", val |-> val]
\* a call that raised: `kind` names the message template, `info` its fields
Err(kind, info) == [kind |-> kind, val |-> info]
NoError == [kind |-> "none", val |-> <<>>]
\* Python's None, returned
None == [kind |-> "None", val |-> <<>>]

IsNone(r) == r.kind = "None"
IsErr(r) == r.kind \notin {"ok", "none", "None"}

(* --------------------------- field validators ------------------------- *)

\* the length check refusing a name of exactly NAME_MAX_LENGTH symbols
validate_username_length_below_max(username) ==
    LET u == Strip(username) IN
    IF u = <<>> THEN Err("EmptyField", "username")
    ELSE IF Len(u) < NAME_MIN_LENGTH THEN Err("TooShort", u)
    ELSE IF Len(u) >= NAME_MAX_LENGTH
         THEN Err("TooLong", truncate_string(u, MAX_DISPLAY_NAME_LEN, Ellipsis, TRUE))
    ELSE NoError

\* validators.field_validators.validate_username_length
validate_username_length(username) ==
    LET u == Strip(username) IN
    IF u = <<>> THEN Err("EmptyField", "username")
    ELSE IF Len(u) < NAME_MIN_LENGTH THEN Err("TooShort", u)
    ELSE IF Len(u) > NAME_MAX_LENGTH
         THEN Err("TooLong", truncate_string(u, MAX_DISPLAY_NAME_LEN, Ellipsis, TRUE))
    ELSE NoError

\* the digit count refusing only numbers of fewer than 10 digits
validate_phone_number_at_least(phone) ==
    LET p == Strip(phone) IN
    IF p = <<>> THEN Err("EmptyField", "phone")
    ELSE IF Len(DigitsOnly(p)) < 10 THEN Err("InvalidFormat", p)
    ELSE NoError

\* validators.field_validators.validate_phone_number
validate_phone_number(phone) ==
    LET p == Strip(phone) IN
    IF p = <<>> THEN Err("EmptyField", "phone")
    ELSE IF Len(DigitsOnly(p)) # 10 THEN Err("InvalidFormat", p)
    ELSE NoError

(* ----------------------------- the inputs ----------------------------- *)

Al   == <<"A", "l">>
al   == <<"a", "l">>
Bo   == <<"B", "o">>
AlSp == <<" ", "A", "l", " ">>
NameInputs == {Al, al, Bo, AlSp, <<"A">>, <<>>}
\* the names looked up: stored ones, one differing by case, one padded
LookupNames == {Al, al, Bo, AlSp}

P1 == <<"1", "2", "3", "4", "5", "6", "7", "8", "9", "0">>
P2 == <<"0", "9", "8", "7", "6", "5", "4", "3", "2", "1">>
P1Sp == <<" ">> \o P1
PBad == <<"1", "2", "3">>
PhoneInputs == {P1, P2, P1Sp, PBad, <<>>}

(* ------------------------- calls and returns -------------------------- *)

Idle == [op |-> "idle", args |-> <<>>]
NoPre == [recs |-> <<>>, data |-> <<>>]

Init ==
    /\ recs = <<>>
    /\ data = <<>>
    /\ call = Idle
    /\ ret = NoError
    /\ pre = NoPre

\* one operation runs to its end: `out` is what it leaves
Do(op, args, out) ==
    /\ call' = [op |-> op, args |-> args]
    /\ pre' = [recs |-> recs, data |-> data]
    /\ recs' = out.recs
    /\ data' = out.data
    /\ ret' = out.ret

\* the caller has consumed the result; the program is at rest again
NextCommand ==
    /\ call # Idle
    /\ call' = Idle
    /\ ret' = NoError
    /\ pre' = NoPre
    /\ UNCHANGED <<recs, data>>

Out(rs, d, r) == [recs |-> rs, data |-> d, ret |-> r]

(* -------------------------------- dates ------------------------------- *)

\* date.today() of the run: Monday 26 February 2024
Today == [year |-> 2024, month |-> 2, day |-> 26]

DigitChars == <<"0", "1", "2", "3", "4", "5", "6", "7", "8", "9">>

DigitValue(c) == (CHOOSE n \in 1..10 : DigitChars[n] = c) - 1

\* int() of a string of digits
RECURSIVE ToInt(_)
ToInt(s) ==
    IF s = <<>> THEN 0
    ELSE 10 * ToInt(SubSeq(s, 1, Len(s) - 1)) + DigitValue(s[Len(s)])

\* utils.date_utils.is_leap_year
is_leap_year(year) == year % 4 = 0 /\ (year % 100 # 0 \/ year % 400 = 0)

DaysInMonth(year, month) ==
    IF month = 2 THEN (IF is_leap_year(year) THEN 29 ELSE 28)
    ELSE IF month \in {4, 6, 9, 11} THEN 30 ELSE 31

\* datetime.date(year, month, day) accepts these and no other values
\* (datetime.MINYEAR is 1, datetime.MAXYEAR is 9999)
IsDate(year, month, day) ==
    /\ year \in 1..9999
    /\ month \in 1..12
    /\ day \in 1..DaysInMonth(year, month)

\* strptime's %d: 3[0-1] | [1-2]\d | 0[1-9] | [1-9] | " "[1-9]
MatchesDay(p) ==
    \/ Len(p) = 1 /\ p[1] \in Digits \ {"0"}
    \/ /\ Len(p) = 2
       /\ \/ p[1] = "3" /\ p[2] \in {"0", "1"}
          \/ p[1] \in {"1", "2"} /\ p[2] \in Digits
          \/ p[1] \in {"0", " "} /\ p[2] \in Digits \ {"0"}

\* strptime's %m: 1[0-2] | 0[1-9] | [1-9]
MatchesMonth(p) ==
    \/ Len(p) = 1 /\ p[1] \in Digits \ {"0"}
    \/ /\ Len(p) = 2
       /\ \/ p[1] = "1" /\ p[2] \in {"0", "1", "2"}
          \/ p[1] = "0" /\ p[2] \in Digits \ {"0"}

\* strptime's %Y: \d\d\d\d
MatchesYear(p) == Len(p) = 4 /\ \A i \in 1..4 : p[i] \in Digits

\* utils.date_utils.parse_date: datetime.strptime(date_str, "%d.%m.%Y").date()
parse_date(date_str) ==
    LET dots == {i \in 1..Len(date_str) : date_str[i] = "."}
        d1   == CHOOSE i \in dots : \A j \in dots : i <= j
        d2   == CHOOSE i \in dots : \A j \in dots : j <= i
        dd   == SubSeq(date_str, 1, d1 - 1)
        mm   == SubSeq(date_str, d1 + 1, d2 - 1)
        yyyy == SubSeq(date_str, d2 + 1, Len(date_str))
        day  == ToInt(SelectSeq(dd, IsDigit))
    IN IF Cardinality(dots) # 2 THEN Err("ValueError", <<date_str>>)
       ELSE IF ~(MatchesDay(dd) /\ MatchesMonth(mm) /\ MatchesYear(yyyy))
       THEN Err("ValueError", <<date_str>>)
       ELSE IF ~IsDate(ToInt(yyyy), ToInt(mm), day)
       THEN Err("ValueError", <<date_str>>)
       ELSE Ok([year |-> ToInt(yyyy), month |-> ToInt(mm), day |-> day])

\* the digits of n, zero-padded to `width`
RECURSIVE Padded(_, _)
Padded(n, width) ==
    IF width = 0 THEN <<>>
    ELSE Append(Padded(n \div 10, width - 1), DigitChars[(n % 10) + 1])

\* utils.date_utils.format_date_str: date_obj.strftime("%d.%m.%Y")
format_date_str(date_obj) ==
    Padded(date_obj.day, 2) \o <<".">> \o Padded(date_obj.month, 2) \o <<".">>
        \o Padded(date_obj.year, 4)

\* date.__lt__
DateLess(a, b) ==
    \/ a.year < b.year
    \/ a.year = b.year /\ a.month < b.month
    \/ a.year = b.year /\ a.month = b.month /\ a.day < b.day

\* date.toordinal: 1 for 1 January of year 1
DaysBeforeMonth(year, month) ==
    LET before[m \in 1..12] ==
            IF m = 1 THEN 0 ELSE before[m - 1] + DaysInMonth(year, m - 1)
    IN before[month]

ToOrdinal(d) ==
    LET y == d.year - 1
    IN y * 365 + y \div 4 - y \div 100 + y \div 400
           + DaysBeforeMonth(d.year, d.month) + d.day

\* date.weekday: Monday is 0, Sunday is 6
Weekday(d) == (ToOrdinal(d) + 6) % 7

\* date.fromordinal: the date whose toordinal() is n
FromOrdinal(n) ==
    LET guess == (n * 400) \div 146097 + 1
        year  == CHOOSE y \in (guess - 1)..(guess + 1) :
                     /\ ToOrdinal([year |-> y, month |-> 1, day |-> 1]) <= n
                     /\ n < ToOrdinal([year |-> y + 1, month |-> 1, day |-> 1])
        rest  == n - ToOrdinal([year |-> year, month |-> 1, day |-> 1]) + 1
        month == CHOOSE m \in 1..12 :
                     /\ DaysBeforeMonth(year, m) < rest
                     /\ rest <= DaysBeforeMonth(year, m) + DaysInMonth(year, m)
    IN [year |-> year, month |-> month, day |-> rest - DaysBeforeMonth(year, month)]

\* date + timedelta(days)
PlusDays(d, days) == FromOrdinal(ToOrdinal(d) + days)

\* validators.field_validators.validate_birthday_format
validate_birthday_format(value) ==
    IF IsErr(parse_date(value)) THEN Err("InvalidFormat", <<value>>)
    ELSE parse_date(value)

\* the check refusing a birthday that is today as well
validate_birthday_is_before_today(birthday) ==
    IF ~DateLess(birthday, Today) THEN Err("FutureDate", <<format_date_str(birthday)>>)
    ELSE NoError

\* validators.field_validators.validate_birthday_is_in_the_past
validate_birthday_is_in_the_past(birthday) ==
    IF DateLess(Today, birthday) THEN Err("FutureDate", <<format_date_str(birthday)>>)
    ELSE NoError

\* Birthday.__init__ on a string: the date parsed and validated, or the error
Birthday(value) ==
    IF IsErr(validate_birthday_format(value)) THEN validate_birthday_format(value)
    ELSE IF IsErr(validate_birthday_is_in_the_past(validate_birthday_format(value).val))
    THEN validate_birthday_is_in_the_past(validate_birthday_format(value).val)
    ELSE validate_birthday_format(value)

\* Birthday.value setter on a string: validates, then stores: [value, ret]
birthday_value_setter(value, new_value) ==
    IF IsErr(Birthday(new_value))
    THEN [value |-> value, ret |-> Birthday(new_value)]
    ELSE [value |-> Birthday(new_value).val, ret |-> NoError]

(* ------------------------------- Record ------------------------------- *)

\* Record.__init__: Name(username) strips and validates; no phones, no birthday
Record(username) ==
    IF IsErr(validate_username_length(Strip(username)))
    THEN validate_username_length(Strip(username))
    ELSE Ok([name |-> Strip(username), phones |-> <<>>, birthday |-> None])

\* Phone.__init__ / Phone.update_phone: validates, then keeps the string as given
Phone(phone_number) ==
    IF IsErr(validate_phone_number(phone_number))
    THEN validate_phone_number(phone_number)
    ELSE Ok(phone_number)

\* the setter of Field, storing without validation
value_setter_unchecked(value, new_value) ==
    [value |-> new_value, ret |-> NoError]

\* Phone.value setter: validates, then stores: [value, ret]
value_setter(value, new_value) ==
    IF IsErr(validate_phone_number(new_value))
    THEN [value |-> value, ret |-> validate_phone_number(new_value)]
    ELSE [value |-> new_value, ret |-> NoError]

\* Phone.update_phone: validates, then assigns through the setter: [value, ret]
update_phone(value, phone_number) ==
    IF IsErr(validate_phone_number(phone_number))
    THEN [value |-> value, ret |-> validate_phone_number(phone_number)]
    ELSE value_setter(value, phone_number)

\* Record._find_phone_with_index: the first index holding phone_number, 0 for None
find_phone_with_index(phones, phone_number) ==
    IF \E i \in 1..Len(phones) : phones[i] = phone_number
    THEN CHOOSE i \in 1..Len(phones) :
             /\ phones[i] = phone_number
             /\ \A j \in 1..(i - 1) : phones[j] # phone_number
    ELSE 0

\* list.pop(idx)
Pop(s, idx) == SubSeq(s, 1, idx - 1) \o SubSeq(s, idx + 1, Len(s))

\* add_phone without the look-up of the number among the record's phones
add_phone_unchecked(rec, phone_number) ==
    IF IsErr(Phone(phone_number))
    THEN [rec |-> rec, ret |-> Phone(phone_number)]
    ELSE [rec |-> [rec EXCEPT !.phones = Append(@, Phone(phone_number).val)],
          ret |-> Ok(MSG_PHONE_ADDED)]

\* add_phone putting the new Phone at the head of the list
add_phone_at_head(rec, phone_number) ==
    IF find_phone_with_index(rec.phones, phone_number) # 0
    THEN [rec |-> rec, ret |-> Err("DuplicatePhone", <<rec.name, phone_number>>)]
    ELSE IF IsErr(Phone(phone_number))
    THEN [rec |-> rec, ret |-> Phone(phone_number)]
    ELSE [rec |-> [rec EXCEPT !.phones = <<Phone(phone_number).val>> \o @],
          ret |-> Ok(MSG_PHONE_ADDED)]

\* Record.add_phone: [rec, ret]
add_phone(rec, phone_number) ==
    IF find_phone_with_index(rec.phones, phone_number) # 0
    THEN [rec |-> rec, ret |-> Err("DuplicatePhone", <<rec.name, phone_number>>)]
    ELSE IF IsErr(Phone(phone_number))
    THEN [rec |-> rec, ret |-> Phone(phone_number)]
    ELSE [rec |-> [rec EXCEPT !.phones = Append(@, Phone(phone_number).val)],
          ret |-> Ok(MSG_PHONE_ADDED)]

\* remove_phone popping the last Phone of the list
remove_phone_last(rec, phone_number) ==
    IF find_phone_with_index(rec.phones, phone_number) = 0
    THEN [rec |-> rec, ret |-> Err("PhoneNotFound", <<phone_number>>)]
    ELSE [rec |-> [rec EXCEPT !.phones = Pop(@, Len(@))], ret |-> Ok(MSG_PHONE_DELETED)]

\* Record.remove_phone: [rec, ret]
remove_phone(rec, phone_number) ==
    LET idx == find_phone_with_index(rec.phones, phone_number) IN
    IF idx = 0
    THEN [rec |-> rec, ret |-> Err("PhoneNotFound", <<phone_number>>)]
    ELSE [rec |-> [rec EXCEPT !.phones = Pop(@, idx)], ret |-> Ok(MSG_PHONE_DELETED)]

\* edit_phone dropping the old Phone and appending a new one
edit_phone_reappend(rec, prev_phone_number, new_phone_number) ==
    LET idx == find_phone_with_index(rec.phones, prev_phone_number) IN
    IF find_phone_with_index(rec.phones, new_phone_number) # 0
    THEN [rec |-> rec, ret |-> Err("DuplicatePhone", <<new_phone_number>>)]
    ELSE IF idx = 0
    THEN [rec |-> rec, ret |-> Err("PhoneNotFound", <<prev_phone_number>>)]
    ELSE IF IsErr(Phone(new_phone_number))
    THEN [rec |-> rec, ret |-> Phone(new_phone_number)]
    ELSE [rec |-> [rec EXCEPT !.phones = Append(Pop(@, idx), Phone(new_phone_number).val)],
          ret |-> Ok(MSG_PHONE_UPDATED)]

\* edit_phone looking for the new number only at the other positions
edit_phone_elsewhere(rec, prev_phone_number, new_phone_number) ==
    LET idx == find_phone_with_index(rec.phones, prev_phone_number) IN
    IF \E i \in 1..Len(rec.phones) : i # idx /\ rec.phones[i] = new_phone_number
    THEN [rec |-> rec, ret |-> Err("DuplicatePhone", <<new_phone_number>>)]
    ELSE IF idx = 0
    THEN [rec |-> rec, ret |-> Err("PhoneNotFound", <<prev_phone_number>>)]
    ELSE IF IsErr(Phone(new_phone_number))
    THEN [rec |-> rec, ret |-> Phone(new_phone_number)]
    ELSE [rec |-> [rec EXCEPT !.phones[idx] = Phone(new_phone_number).val],
          ret |-> Ok(MSG_PHONE_UPDATED)]

\* edit_phone assigning the new number without validating it
edit_phone_unvalidated(rec, prev_phone_number, new_phone_number) ==
    LET idx == find_phone_with_index(rec.phones, prev_phone_number) IN
    IF find_phone_with_index(rec.phones, new_phone_number) # 0
    THEN [rec |-> rec, ret |-> Err("DuplicatePhone", <<new_phone_number>>)]
    ELSE IF idx = 0
    THEN [rec |-> rec, ret |-> Err("PhoneNotFound", <<prev_phone_number>>)]
    ELSE [rec |-> [rec EXCEPT !.phones[idx] = new_phone_number],
          ret |-> Ok(MSG_PHONE_UPDATED)]

\* Record.edit_phone: [rec, ret]
edit_phone(rec, prev_phone_number, new_phone_number) ==
    LET idx == find_phone_with_index(rec.phones, prev_phone_number) IN
    IF find_phone_with_index(rec.phones, new_phone_number) # 0
    THEN [rec |-> rec, ret |-> Err("DuplicatePhone", <<new_phone_number>>)]
    ELSE IF idx = 0
    THEN [rec |-> rec, ret |-> Err("PhoneNotFound", <<prev_phone_number>>)]
    ELSE IF IsErr(Phone(new_phone_number))
    THEN [rec |-> rec, ret |-> Phone(new_phone_number)]
    ELSE [rec |-> [rec EXCEPT !.phones[idx] = Phone(new_phone_number).val],
          ret |-> Ok(MSG_PHONE_UPDATED)]

\* Record.find_phone: the Phone object, given as <<its index, its value>>, or None
find_phone(rec, phone_number) ==
    LET idx == find_phone_with_index(rec.phones, phone_number) IN
    IF idx = 0 THEN None ELSE Ok(<<idx, rec.phones[idx]>>)

\* add_birthday replacing a birthday already set without comparing
add_birthday_replacing(rec, date_str) ==
    IF IsErr(Birthday(date_str))
    THEN [rec |-> rec, ret |-> Birthday(date_str)]
    ELSE [rec |-> [rec EXCEPT !.birthday = Birthday(date_str)],
          ret |-> IF IsNone(rec.birthday) THEN Ok(MSG_BIRTHDAY_ADDED)
                  ELSE Ok(MSG_BIRTHDAY_UPDATED)]

\* Record.add_birthday: [rec, ret]
add_birthday(rec, date_str) ==
    IF IsErr(Birthday(date_str))
    THEN [rec |-> rec, ret |-> Birthday(date_str)]
    ELSE IF IsNone(rec.birthday)
    THEN [rec |-> [rec EXCEPT !.birthday = Birthday(date_str)],
          ret |-> Ok(MSG_BIRTHDAY_ADDED)]
    ELSE IF rec.birthday = Birthday(date_str)
    THEN [rec |-> rec, ret |-> Err("DuplicateBirthday", <<rec.name, date_str>>)]
    ELSE [rec |-> [rec EXCEPT !.birthday = Birthday(date_str)],
          ret |-> Ok(MSG_BIRTHDAY_UPDATED)]

(* --------------------------- Record actions --------------------------- *)

NewRecord(username) ==
    /\ call = Idle
    /\ \E r \in {Record(username)} :
           /\ IsErr(r) \/ Len(recs) < MaxRecords
           /\ Do("Record", <<username>>,
                 IF IsErr(r) THEN Out(recs, data, r)
                 ELSE Out(Append(recs, r.val), data, Ok(Len(recs) + 1)))

AddPhone(r, phone_number) ==
    /\ call = Idle
    /\ \E out \in {add_phone(recs[r], phone_number)} :
           /\ Len(out.rec.phones) <= MaxPhones
           /\ Do("add_phone", <<r, phone_number>>,
                 Out([recs EXCEPT ![r] = out.rec], data, out.ret))

RemovePhone(r, phone_number) ==
    /\ call = Idle
    /\ \E out \in {remove_phone(recs[r], phone_number)} :
           Do("remove_phone", <<r, phone_number>>,
              Out([recs EXCEPT ![r] = out.rec], data, out.ret))

EditPhone(r, prev_phone_number, new_phone_number) ==
    /\ call = Idle
    /\ \E out \in {edit_phone(recs[r], prev_phone_number, new_phone_number)} :
           Do("edit_phone", <<r, prev_phone_number, new_phone_number>>,
              Out([recs EXCEPT ![r] = out.rec], data, out.ret))

FindPhone(r, phone_number) ==
    /\ call = Idle
    /\ Do("find_phone", <<r, phone_number>>,
          Out(recs, data, find_phone(recs[r], phone_number)))

\* Birthday(value): the date of the new Birthday, or the error
NewBirthday(value) ==
    /\ call = Idle
    /\ Do("Birthday", <<value>>, Out(recs, data, Birthday(value)))

\* record.birthday.value = new_value
AssignBirthdayValue(r, new_value) ==
    /\ call = Idle
    /\ ~IsNone(recs[r].birthday)
    /\ \E out \in {birthday_value_setter(recs[r].birthday.val, new_value)} :
           Do("birthday_value", <<r, new_value>>,
              Out([recs EXCEPT ![r].birthday = Ok(out.value)], data, out.ret))

\* Phone(phone_number): the value of the new Phone, or the error
NewPhone(phone_number) ==
    /\ call = Idle
    /\ Do("Phone", <<phone_number>>, Out(recs, data, Phone(phone_number)))

\* record.phones[i].update_phone(phone_number)
UpdatePhone(r, i, phone_number) ==
    /\ call = Idle
    /\ \E out \in {update_phone(recs[r].phones[i], phone_number)} :
           Do("update_phone", <<r, i, phone_number>>,
              Out([recs EXCEPT ![r].phones[i] = out.value], data, out.ret))

\* record.phones[i].value = new_value
AssignValue(r, i, new_value) ==
    /\ call = Idle
    /\ \E out \in {value_setter(recs[r].phones[i], new_value)} :
           Do("value", <<r, i, new_value>>,
              Out([recs EXCEPT ![r].phones[i] = out.value], data, out.ret))

AddBirthday(r, date_str) ==
    /\ call = Idle
    /\ \E out \in {add_birthday(recs[r], date_str)} :
           Do("add_birthday", <<r, date_str>>,
              Out([recs EXCEPT ![r] = out.rec], data, out.ret))

(* ------------------------- contact validators ------------------------ *)

\* the keys of the dict, in iteration (insertion) order
Keys(contacts) == [i \in 1..Len(contacts) |-> contacts[i].key]

\* `username in contacts`
HasKey(contacts, username) == \E i \in 1..Len(contacts) : contacts[i].key = username

\* contacts.get(username): the record's id, or None
Get(contacts, username) ==
    IF HasKey(contacts, username)
    THEN Ok(contacts[CHOOSE i \in 1..Len(contacts) : contacts[i].key = username].rec)
    ELSE None

\* the first key of the dict, in iteration order, that equals username when both
\* are lowercased; <<>> (falsy, like None) when there is none
FirstLowerMatch(contacts, username) ==
    IF \E i \in 1..Len(contacts) : Lower(contacts[i].key) = Lower(username)
    THEN contacts[CHOOSE i \in 1..Len(contacts) :
                      /\ Lower(contacts[i].key) = Lower(username)
                      /\ \A j \in 1..(i - 1) :
                             Lower(contacts[j].key) # Lower(username)].key
    ELSE <<>>

\* validate_contact_not_in_contacts lowercasing the stored key only
validate_contact_not_in_contacts_half_lowered(username, contacts) ==
    IF HasKey(contacts, username)
    THEN Err("DuplicateContact", <<username>>)
    ELSE IF \E i \in 1..Len(contacts) : Lower(contacts[i].key) = username
    THEN Err("DuplicateContact", <<username, FirstLowerMatch(contacts, username)>>)
    ELSE NoError

\* validate_contact_not_in_contacts with the exact test alone
validate_contact_not_in_contacts_exact(username, contacts) ==
    IF HasKey(contacts, username)
    THEN Err("DuplicateContact", <<username>>)
    ELSE NoError

\* validators.contact_validators.validate_contact_not_in_contacts
validate_contact_not_in_contacts(username, contacts) ==
    IF HasKey(contacts, username)
    THEN Err("DuplicateContact", <<username>>)
    ELSE IF FirstLowerMatch(contacts, username) # <<>>
    THEN Err("DuplicateContact", <<username, FirstLowerMatch(contacts, username)>>)
    ELSE NoError

\* validators.contact_validators.validate_contacts_not_empty
validate_contacts_not_empty(contacts) ==
    IF Len(contacts) = 0 THEN Err("DirectoryEmpty", <<>>) ELSE NoError

\* validate_contact_is_in_contacts resolving a case-only difference silently
validate_contact_is_in_contacts_resolving(username, contacts) ==
    LET match == FirstLowerMatch(contacts, username) IN
    IF match = <<>> THEN Err("ContactNotFound", <<username>>)
    ELSE Get(contacts, match)

\* validators.contact_validators.validate_contact_is_in_contacts
validate_contact_is_in_contacts(username, contacts) ==
    LET match == FirstLowerMatch(contacts, username) IN
    IF match = <<>> THEN Err("ContactNotFound", <<username>>)
    ELSE IF match # username THEN Err("NotFoundDidYouMean", <<username, match>>)
    ELSE Get(contacts, username)

(* ----------------------------- AddressBook ---------------------------- *)

\* what is passed to add_record in place of a Record
NotARecord == 0

\* add_record storing the record under its name whatever is there
add_record_overwriting(rs, contacts, contact) ==
    IF contact = NotARecord
    THEN [data |-> contacts, ret |-> Err("TypeError", <<"Record", "object">>)]
    ELSE IF HasKey(contacts, rs[contact].name)
    THEN [data |-> [i \in 1..Len(contacts) |->
                       IF contacts[i].key = rs[contact].name
                       THEN [key |-> rs[contact].name, rec |-> contact]
                       ELSE contacts[i]],
          ret |-> Ok(MSG_CONTACT_ADDED)]
    ELSE [data |-> Append(contacts, [key |-> rs[contact].name, rec |-> contact]),
          ret |-> Ok(MSG_CONTACT_ADDED)]

\* AddressBook.add_record: [data, ret]
add_record(rs, contacts, contact) ==
    IF contact = NotARecord
    THEN [data |-> contacts, ret |-> Err("TypeError", <<"Record", "object">>)]
    ELSE IF IsErr(validate_contact_not_in_contacts(rs[contact].name, contacts))
    THEN [data |-> contacts,
          ret |-> validate_contact_not_in_contacts(rs[contact].name, contacts)]
    ELSE [data |-> Append(contacts, [key |-> rs[contact].name, rec |-> contact]),
          ret |-> Ok(MSG_CONTACT_ADDED)]

\* find without the empty-book guard
find_unguarded(contacts, username) ==
    validate_contact_is_in_contacts(username, contacts)

\* AddressBook.find
find(contacts, username) ==
    IF IsErr(validate_contacts_not_empty(contacts))
    THEN validate_contacts_not_empty(contacts)
    ELSE validate_contact_is_in_contacts(username, contacts)

\* dict.pop(username)
PopKey(contacts, username) ==
    SelectSeq(contacts, LAMBDA e : e.key # username)

\* delete removing the record found under the name in any case
delete_any_case(contacts, username) ==
    IF FirstLowerMatch(contacts, username) = <<>>
    THEN [data |-> contacts, ret |-> Err("ContactNotFound", <<username>>)]
    ELSE [data |-> PopKey(contacts, FirstLowerMatch(contacts, username)),
          ret |-> Ok(MSG_CONTACT_DELETED)]

\* delete with the empty-book guard of find
delete_guarded(contacts, username) ==
    IF IsErr(find(contacts, username))
    THEN [data |-> contacts, ret |-> find(contacts, username)]
    ELSE [data |-> PopKey(contacts, username), ret |-> Ok(MSG_CONTACT_DELETED)]

\* AddressBook.delete: [data, ret]
delete(contacts, username) ==
    IF IsErr(validate_contact_is_in_contacts(username, contacts))
    THEN [data |-> contacts, ret |-> validate_contact_is_in_contacts(username, contacts)]
    ELSE [data |-> PopKey(contacts, username), ret |-> Ok(MSG_CONTACT_DELETED)]

\* the lines without the padding of the names
format_records_unpadded(rs, records, offset) ==
    [i \in 1..Len(records) |->
        offset \o rs[records[i]].name \o <<" ", ":", " ">>
               \o Join(<<";", " ">>, rs[records[i]].phones)]

\* AddressBook._format_records: one line per record, names padded to the longest
format_records(rs, records, offset) ==
    LET max_len == MaxOf([i \in 1..Len(records) |-> Len(rs[records[i]].name)]) IN
    [i \in 1..Len(records) |->
        offset \o LJust(rs[records[i]].name, max_len) \o <<" ", ":", " ">>
               \o Join(<<";", " ">>, rs[records[i]].phones)]

Offset == <<" ", " ">>

\* utils.text_utils.format_line_output: MSG_FORMATTED_LINE filled in
format_line_output(item, max_title_len, offset) ==
    offset \o LJust(item[1], max_title_len) \o <<" ", ":", " ">> \o item[2]

\* utils.text_utils.format_columns_output: the lines joined by newlines
format_columns_output(items, offset) ==
    LET max_title_len ==
            IF items = <<>> THEN 0
            ELSE MaxOf([i \in 1..Len(items) |-> Len(items[i][1])])
    IN Join(<<"\n">>,
            [i \in 1..Len(items) |-> format_line_output(items[i], max_title_len, offset)])

\* list(self.data.values())
Values(contacts) == [i \in 1..Len(contacts) |-> contacts[i].rec]

\* AddressBook.__str__: the title's count and plural suffix, then the lines
book_str(rs, contacts) ==
    IF IsErr(validate_contacts_not_empty(contacts))
    THEN validate_contacts_not_empty(contacts)
    ELSE Ok([title |-> <<"You have", Len(contacts),
                         IF Len(contacts) = 1 THEN "contact" ELSE "contacts">>,
             records |-> Values(contacts),
             lines |-> format_records(rs, Values(contacts), Offset)])

\* the matching loop appending once for the name and once more for a phone
MatchesTwice(rs, contacts, search_term) ==
    IF search_term = <<>> THEN Values(contacts)
    ELSE Values(SelectSeq(contacts, LAMBDA e :
                    Contains(Lower(e.key), Lower(search_term))))
         \o Values(SelectSeq(contacts, LAMBDA e :
                    \E k \in 1..Len(rs[e.rec].phones) :
                        Contains(rs[e.rec].phones[k], search_term)))

\* the loop of find_match: the records matching by name or, failing that, by phone
Matches(rs, contacts, search_term) ==
    IF search_term = <<>> THEN Values(contacts)
    ELSE Values(SelectSeq(contacts, LAMBDA e :
             IF Contains(Lower(e.key), Lower(search_term)) THEN TRUE
             ELSE \E k \in 1..Len(rs[e.rec].phones) :
                      Contains(rs[e.rec].phones[k], search_term)))

\* the sort of the matches by name as written, case kept
RECURSIVE SortByNameAsWritten(_, _)
SortByNameAsWritten(rs, records) ==
    IF Len(records) <= 1 THEN records
    ELSE LET rest == SortByNameAsWritten(rs, SubSeq(records, 1, Len(records) - 1))
             x    == records[Len(records)]
             pos  == Cardinality({i \in 1..Len(rest) :
                         ~StrLess(rs[x].name, rs[rest[i]].name)})
         IN SubSeq(rest, 1, pos) \o <<x>> \o SubSeq(rest, pos + 1, Len(rest))

RECURSIVE SortByName(_, _)
\* list.sort(key=lambda record: record.name.value.lower()): stable insertion of
\* the last element after the sorted rest
SortByName(rs, records) ==
    IF Len(records) <= 1 THEN records
    ELSE LET rest == SortByName(rs, SubSeq(records, 1, Len(records) - 1))
             x    == records[Len(records)]
             pos  == Cardinality({i \in 1..Len(rest) :
                         ~StrLess(Lower(rs[x].name), Lower(rs[rest[i]].name))})
         IN SubSeq(rest, 1, pos) \o <<x>> \o SubSeq(rest, pos + 1, Len(rest))

\* AddressBook.find_match
find_match(rs, contacts, search_term) ==
    LET matches == SortByName(rs, Matches(rs, contacts, search_term)) IN
    IF IsErr(validate_contacts_not_empty(contacts))
    THEN validate_contacts_not_empty(contacts)
    ELSE IF matches = <<>> THEN Ok(MSG_NO_MATCHES)
    ELSE Ok([title |-> <<"Found", Len(matches),
                         IF Len(matches) = 1 THEN "match" ELSE "matches",
                         IF search_term = <<>> THEN "empty search" ELSE search_term>>,
             records |-> matches,
             lines |-> format_records(rs, matches, Offset)])

\* get_upcoming_birthdays: the birthday carried to the year of `today`
ThisYear(birthday, today) ==
    IF birthday.month = 2 /\ birthday.day = 29
    THEN IF is_leap_year(today.year)
         THEN [birthday EXCEPT !.year = today.year]
         ELSE [year |-> today.year, month |-> 3, day |-> 1]
    ELSE [birthday EXCEPT !.year = today.year]

\* get_upcoming_birthdays: a date already passed is moved to the next year
NextOccurrence(birthday, today) ==
    LET congratulation_date == ThisYear(birthday, today) IN
    IF ~DateLess(congratulation_date, today) THEN congratulation_date
    ELSE IF congratulation_date.month = 2 /\ congratulation_date.day = 29
    THEN IF ~is_leap_year(today.year + 1)
         THEN [year |-> today.year + 1, month |-> 3, day |-> 1]
         ELSE [congratulation_date EXCEPT !.year = today.year + 1]
    ELSE [congratulation_date EXCEPT !.year = today.year + 1]

\* the weekend shift moving a Saturday by one day only
ShiftWeekendByOne(congratulation_date) ==
    IF Weekday(congratulation_date) \in {5, 6} THEN PlusDays(congratulation_date, 1)
    ELSE congratulation_date

\* get_upcoming_birthdays: Saturday and Sunday go to the following Monday
ShiftWeekend(congratulation_date) ==
    IF Weekday(congratulation_date) = 5 THEN PlusDays(congratulation_date, 2)
    ELSE IF Weekday(congratulation_date) = 6 THEN PlusDays(congratulation_date, 1)
    ELSE congratulation_date

\* the loop keeping a record when its shifted date is within the period
RECURSIVE CongratulationsShiftedFirst(_, _, _, _)
CongratulationsShiftedFirst(rs, records, today, upcoming_period_days) ==
    IF records = <<>> THEN <<>>
    ELSE LET record == rs[Head(records)]
             rest   == CongratulationsShiftedFirst(rs, Tail(records), today,
                                                   upcoming_period_days)
         IN IF IsNone(record.birthday) THEN rest
            ELSE LET congratulation_date ==
                         ShiftWeekend(NextOccurrence(record.birthday.val, today))
                 IN IF /\ ~DateLess(congratulation_date, today)
                       /\ ~DateLess(PlusDays(today, upcoming_period_days),
                                    congratulation_date)
                    THEN <<[name |-> record.name,
                            congratulation_date |-> congratulation_date]>> \o rest
                    ELSE rest

\* get_upcoming_birthdays: the loop over self.data.values()
RECURSIVE Congratulations(_, _, _, _)
Congratulations(rs, records, today, upcoming_period_days) ==
    IF records = <<>> THEN <<>>
    ELSE LET record == rs[Head(records)]
             rest   == Congratulations(rs, Tail(records), today, upcoming_period_days)
         IN IF IsNone(record.birthday) THEN rest
            ELSE LET congratulation_date == NextOccurrence(record.birthday.val, today) IN
                 IF /\ ~DateLess(congratulation_date, today)
                    /\ ~DateLess(PlusDays(today, upcoming_period_days), congratulation_date)
                 THEN <<[name |-> record.name,
                         congratulation_date |-> ShiftWeekend(congratulation_date)]>>
                          \o rest
                 ELSE rest

\* a sort by date putting the later of two equal entries first
RECURSIVE SortByDateLastFirst(_)
SortByDateLastFirst(users) ==
    IF users = <<>> THEN <<>>
    ELSE LET rest == SortByDateLastFirst(SubSeq(users, 1, Len(users) - 1))
             x    == users[Len(users)]
             pos  == Cardinality({i \in 1..Len(rest) :
                         DateLess(rest[i].congratulation_date, x.congratulation_date)})
         IN SubSeq(rest, 1, pos) \o <<x>> \o SubSeq(rest, pos + 1, Len(rest))

\* list.sort(key = congratulation_date): stable
RECURSIVE SortByDate(_)
SortByDate(users) ==
    IF users = <<>> THEN <<>>
    ELSE LET rest == SortByDate(SubSeq(users, 1, Len(users) - 1))
             x    == users[Len(users)]
             pos  == Cardinality({i \in 1..Len(rest) :
                         ~DateLess(x.congratulation_date, rest[i].congratulation_date)})
         IN SubSeq(rest, 1, pos) \o <<x>> \o SubSeq(rest, pos + 1, Len(rest))

\* AddressBook.get_upcoming_birthdays; `today` is None or a date string
get_upcoming_birthdays(rs, contacts, today, upcoming_period_days) ==
    LET today_obj == IF IsNone(today) THEN Ok(Today) ELSE parse_date(today.val)
        sorted    == SortByDate(Congratulations(rs, Values(contacts), today_obj.val,
                                                upcoming_period_days))
    IN IF IsErr(today_obj) THEN today_obj
       ELSE IF contacts = <<>> THEN Ok(<<>>)
       ELSE Ok([i \in 1..Len(sorted) |->
                   [name |-> sorted[i].name,
                    congratulation_date |-> format_date_str(sorted[i].congratulation_date)]])

(* --------------------------- contacts_manager ------------------------- *)

\* add_contact storing the new record before giving it the phone
add_contact_storing_first(rs, contacts, username, phone_number) ==
    LET record == Get(contacts, username) IN
    IF IsNone(record)
    THEN IF IsErr(Record(username)) THEN Out(rs, contacts, Record(username))
         ELSE LET new    == Len(rs) + 1
                  stored == add_record(Append(rs, Record(username).val), contacts, new)
                  added  == add_phone(Record(username).val, phone_number)
              IN IF IsErr(stored.ret) THEN Out(rs, contacts, stored.ret)
                 ELSE Out(Append(rs, added.rec), stored.data,
                          IF IsErr(added.ret) THEN added.ret ELSE stored.ret)
    ELSE LET added == add_phone(rs[record.val], phone_number) IN
         Out([rs EXCEPT ![record.val] = added.rec], contacts, added.ret)

\* add_contact never looking the name up: a new Record every time
add_contact_always_new(rs, contacts, username, phone_number) ==
    IF IsErr(Record(username)) THEN Out(rs, contacts, Record(username))
    ELSE LET new    == Len(rs) + 1
             added  == add_phone(Record(username).val, phone_number)
             heap   == Append(rs, added.rec)
             stored == add_record(heap, contacts, new)
         IN IF IsErr(added.ret) THEN Out(rs, contacts, added.ret)
            ELSE IF IsErr(stored.ret) THEN Out(rs, contacts, stored.ret)
            ELSE Out(heap, stored.data, stored.ret)

\* services.contacts_manager.add_contact: [recs, data, ret]
add_contact(rs, contacts, username, phone_number) ==
    LET record == Get(contacts, username) IN
    IF IsNone(record)
    THEN IF IsErr(Record(username)) THEN Out(rs, contacts, Record(username))
         ELSE LET new    == Len(rs) + 1
                  added  == add_phone(Record(username).val, phone_number)
                  heap   == Append(rs, added.rec)
                  stored == add_record(heap, contacts, new)
              IN IF IsErr(added.ret) THEN Out(rs, contacts, added.ret)
                 ELSE IF IsErr(stored.ret) THEN Out(rs, contacts, stored.ret)
                 ELSE Out(heap, stored.data, stored.ret)
    ELSE LET added == add_phone(rs[record.val], phone_number) IN
         Out([rs EXCEPT ![record.val] = added.rec], contacts, added.ret)

\* services.contacts_manager.change_contact: [recs, data, ret]
change_contact(rs, contacts, username, prev_phone_number, new_phone_number) ==
    LET record == find(contacts, username) IN
    IF IsErr(record) THEN Out(rs, contacts, record)
    ELSE LET edited == edit_phone(rs[record.val], prev_phone_number, new_phone_number)
         IN Out([rs EXCEPT ![record.val] = edited.rec], contacts, edited.ret)

(* ------------------------- AddressBook actions ------------------------ *)

AddRecord(contact) ==
    /\ call = Idle
    /\ \E out \in {add_record(recs, data, contact)} :
           Do("add_record", <<contact>>, Out(recs, out.data, out.ret))

Find(username) ==
    /\ call = Idle
    /\ Do("find", <<username>>, Out(recs, data, find(data, username)))

FindMatch(search_term) ==
    /\ call = Idle
    /\ Do("find_match", <<search_term>>,
          Out(recs, data, find_match(recs, data, search_term)))

Delete(username) ==
    /\ call = Idle
    /\ \E out \in {delete(data, username)} :
           Do("delete", <<username>>, Out(recs, out.data, out.ret))

Str ==
    /\ call = Idle
    /\ Do("__str__", <<>>, Out(recs, data, book_str(recs, data)))

FormatColumnsOutput(items) ==
    /\ call = Idle
    /\ Do("format_columns_output", <<items>>,
          Out(recs, data, Ok(format_columns_output(items, Offset))))

TruncateString(string, max_length, suffix, include_suffix_in_max_length) ==
    /\ call = Idle
    /\ Do("truncate_string",
          <<string, max_length, suffix, include_suffix_in_max_length>>,
          Out(recs, data,
              Ok(truncate_string(string, max_length, suffix,
                                 include_suffix_in_max_length))))

GetUpcomingBirthdays(today) ==
    /\ call = Idle
    /\ Do("get_upcoming_birthdays", <<today>>,
          Out(recs, data, get_upcoming_birthdays(recs, data, today, UPCOMING_PERIOD_DAYS)))

GetUpcomingBirthdaysWithin(today, upcoming_period_days) ==
    /\ call = Idle
    /\ Do("get_upcoming_birthdays", <<today, upcoming_period_days>>,
          Out(recs, data, get_upcoming_birthdays(recs, data, today, upcoming_period_days)))

AddContact(username, phone_number) ==
    /\ call = Idle
    /\ \E out \in {add_contact(recs, data, username, phone_number)} :
           /\ Len(out.recs) <= MaxRecords
           /\ \A r \in 1..Len(out.recs) : Len(out.recs[r].phones) <= MaxPhones
           /\ Do("add_contact", <<username, phone_number>>, out)

ChangeContact(username, prev_phone_number, new_phone_number) ==
    /\ call = Idle
    /\ Do("change_contact", <<username, prev_phone_number, new_phone_number>>,
          change_contact(recs, data, username, prev_phone_number, new_phone_number))

(* One Record on its own: the phone operations over every phone input. *)
NextRecord ==
    \/ \E u \in NameInputs : recs = <<>> /\ NewRecord(u)
    \/ \E r \in 1..Len(recs), p \in PhoneInputs : AddPhone(r, p)
    \/ \E r \in 1..Len(recs), p \in PhoneInputs : RemovePhone(r, p)
    \/ \E r \in 1..Len(recs), p, q \in PhoneInputs : EditPhone(r, p, q)
    \/ \E r \in 1..Len(recs), p \in PhoneInputs : FindPhone(r, p)
    \/ NextCommand

SpecRecord == Init /\ [][NextRecord]_vars

(* The directory, the contact manager on it, and the phone operations on  *)
(* its records and on records not yet, or no longer, stored in it.        *)
BookPhones == {P1, P2, PBad}
GoodPhones == {P1, P2}
Terms == {<<>>, <<"l">>, <<"A">>, <<"9", "0">>, <<"x">>}

Next ==
    \/ \E u \in NameInputs : NewRecord(u)
    \/ \E r \in 0..Len(recs) : AddRecord(r)
    \/ \E u \in LookupNames : Find(u)
    \/ \E t \in Terms : FindMatch(t)
    \/ \E u \in LookupNames : Delete(u)
    \/ Str
    \/ \E u \in NameInputs, p \in BookPhones : AddContact(u, p)
    \/ \E u \in LookupNames, p \in GoodPhones, q \in BookPhones : ChangeContact(u, p, q)
    \/ \E r \in 1..Len(recs), p \in GoodPhones : AddPhone(r, p)
    \/ \E r \in 1..Len(recs), p \in GoodPhones : RemovePhone(r, p)
    \/ \E r \in 1..Len(recs), p, q \in GoodPhones : EditPhone(r, p, q)
    \/ NextCommand

Spec == Init /\ [][Next]_vars

(* The whole life of a record: every operation of the directory and of   *)
(* its records, birthdays included, over two names, two numbers and one   *)
(* birth date.                                                            *)
LifeNames == {Al, Bo, <<"A">>}
B1 == <<"2", "9", ".", "0", "2", ".", "2", "0", "0", "0">>
BBad == <<"2", "0", "0", "0", "-", "0", "3", "-", "0", "2">>
BFuture == <<"0", "1", ".", "0", "1", ".", "2", "2", "0", "0">>
LifeBirthdays == {B1, BBad, BFuture}
Todays == {None, Ok(<<"2", "4", ".", "0", "2", ".", "2", "0", "2", "3">>), Ok(BBad)}

NextLife ==
    \/ \E u \in LifeNames : NewRecord(u)
    \/ \E r \in 0..Len(recs) : AddRecord(r)
    \/ \E u \in {Al, al} : Find(u)
    \/ \E t \in {<<>>, <<"9">>} : FindMatch(t)
    \/ \E u \in {Al, Bo, al} : Delete(u)
    \/ Str
    \/ \E today \in Todays : GetUpcomingBirthdays(today)
    \/ \E u \in {Al, Bo} : AddContact(u, P1)
    \/ \E u \in {Al, al} : ChangeContact(u, P1, P2)
    \/ \E r \in 1..Len(recs) : AddPhone(r, P1)
    \/ \E r \in 1..Len(recs) : RemovePhone(r, P1)
    \/ \E r \in 1..Len(recs) : EditPhone(r, P1, P2) \/ EditPhone(r, P2, P1)
    \/ \E r \in 1..Len(recs), b \in LifeBirthdays : AddBirthday(r, b)
    \/ NextCommand

SpecLife == Init /\ [][NextLife]_vars

(* One Record and its birthday: every kind of birthday string.            *)
B2 == <<"0", "2", ".", "0", "3", ".", "1", "9", "9", "9">>
B2Short == <<"2", ".", "3", ".", "1", "9", "9", "9">>
BNoSuchDay == <<"3", "1", ".", "0", "2", ".", "2", "0", "0", "0">>
BTomorrow == <<"2", "7", ".", "0", "2", ".", "2", "0", "2", "4">>
BToday == <<"2", "6", ".", "0", "2", ".", "2", "0", "2", "4">>
BirthdayInputs == {B1, B2, B2Short, BToday, BBad, BNoSuchDay, BFuture, BTomorrow, <<>>}

NextBirthday ==
    \/ \E u \in NameInputs : recs = <<>> /\ NewRecord(u)
    \/ \E r \in 1..Len(recs), b \in BirthdayInputs : AddBirthday(r, b)
    \/ \E r \in 1..Len(recs) : AddPhone(r, P1)
    \/ \E r \in 1..Len(recs) : RemovePhone(r, P1)
    \/ NextCommand

SpecBirthday == Init /\ [][NextBirthday]_vars

(* A directory built by add_contact and searched: names and numbers       *)
(* chosen so that a term can match by name, by phone, by both, by case.    *)
A9 == <<"A", "9">>
PE == <<"E", "1", "1", "1", "1", "1", "1", "1", "1", "1", "1">>
SearchNames == {al, Bo, A9}
SearchPhones == {P1, PE}
SearchTerms == {<<>>, <<"a">>, <<"O">>, <<"9">>, <<"9", "0">>, <<"E">>, <<"e">>, <<"x">>}

NextSearch ==
    \/ \E u \in SearchNames, p \in SearchPhones : AddContact(u, p)
    \/ \E t \in SearchTerms : FindMatch(t)
    \/ NextCommand

SpecSearch == Init /\ [][NextSearch]_vars

(* A directory of records with birthdays, asked for the upcoming ones:    *)
(* around a new year, a weekend, the ends of the period, and 29 February. *)
Ed == <<"E", "d">>
UpcomingNames == {Al, Bo, Ed}
BJan1 == <<"0", "1", ".", "0", "1", ".", "2", "0", "0", "2">>
BJan4 == <<"0", "4", ".", "0", "1", ".", "2", "0", "0", "1">>
BJan5 == <<"0", "5", ".", "0", "1", ".", "1", "9", "9", "0">>
BJan9 == <<"0", "9", ".", "0", "1", ".", "2", "0", "0", "0">>
BDec30 == <<"3", "0", ".", "1", "2", ".", "1", "9", "9", "5">>
UpcomingBirthdays == {B1, BJan1, BJan4, BJan5, BJan9, BDec30}

\* today = "01.01.2025", a Wednesday
T1 == <<"0", "1", ".", "0", "1", ".", "2", "0", "2", "5">>
\* today = "28.12.2024", a Saturday
T2 == <<"2", "8", ".", "1", "2", ".", "2", "0", "2", "4">>
\* today = "30.12.2025", a Tuesday
T3 == <<"3", "0", ".", "1", "2", ".", "2", "0", "2", "5">>
\* today = "25.02.2023", a Saturday of a year that is not a leap year
T4 == <<"2", "5", ".", "0", "2", ".", "2", "0", "2", "3">>
\* today = "31.12.2023", a Sunday, the year before a leap year
T5 == <<"3", "1", ".", "1", "2", ".", "2", "0", "2", "3">>
\* today = "01.03.2024", a Friday of a leap year
T6 == <<"0", "1", ".", "0", "3", ".", "2", "0", "2", "4">>
LongPeriod == 61
YearPeriod == 365
UpcomingQueries ==
    {<<None, UPCOMING_PERIOD_DAYS>>, <<Ok(T1), UPCOMING_PERIOD_DAYS>>,
     <<Ok(T2), UPCOMING_PERIOD_DAYS>>, <<Ok(T3), UPCOMING_PERIOD_DAYS>>,
     <<Ok(T4), UPCOMING_PERIOD_DAYS>>, <<Ok(T5), LongPeriod>>,
     <<Ok(T6), YearPeriod>>, <<Ok(BBad), UPCOMING_PERIOD_DAYS>>}

NextUpcoming ==
    \/ \E u \in UpcomingNames : AddContact(u, P1)
    \/ \E r \in 1..Len(recs), b \in UpcomingBirthdays : AddBirthday(r, b)
    \/ \E q \in UpcomingQueries : GetUpcomingBirthdaysWithin(q[1], q[2])
    \/ NextCommand

SpecUpcoming == Init /\ [][NextUpcoming]_vars

(* Names at the limits of the length check, with and without surrounding   *)
(* whitespace.                                                             *)
Repeated(char, n) == [i \in 1..n |-> char]
NameMax     == Repeated("a", NAME_MAX_LENGTH)
NameMaxSp   == <<" ", "\t">> \o Repeated("b", NAME_MAX_LENGTH) \o <<"\n">>
NameOver    == Repeated("c", NAME_MAX_LENGTH + 1)
NameOverSp  == <<" ">> \o Repeated("d", NAME_MAX_LENGTH + 1) \o <<" ">>
NameInside  == <<"a", " ", "b">>
NameOneSp   == <<" ", "A", " ">>
NameBlank   == <<" ", "\t", " ">>
LengthNames ==
    {<<>>, NameBlank, <<"A">>, NameOneSp, Al, AlSp, NameInside,
     NameMax, NameMaxSp, NameOver, NameOverSp}

NextName ==
    \/ \E u \in LengthNames : NewRecord(u)
    \/ NextCommand

SpecName == Init /\ [][NextName]_vars

(* Phone numbers of 0, 3, 9, 10 and 11 digits, bare, grouped, prefixed    *)
(* with "+" and padded, given to Phone and to the Phones of one record.   *)
PPlus    == <<"+">> \o P1
PGrouped == <<"(", "1", "2", "3", ")", " ", "4", "5", "6", "-", "7", "8", "-", "9", "0">>
PPadded  == <<" ", "\t">> \o P2 \o <<"\n">>
PNine    == <<"1", "2", "3", "4", "5", "6", "7", "8", "9">>
PEleven  == P1 \o <<"1">>
PLetters == <<"a", "b", "c">>
PBlank   == <<" ", "\t", "\n">>
PhoneValues ==
    {P1, PPlus, PGrouped, PPadded, PNine, PEleven, PLetters, PBad, PBlank, <<>>}

NextPhone ==
    \/ recs = <<>> /\ NewRecord(Al)
    \/ \E p \in PhoneValues : NewPhone(p)
    \/ \E r \in 1..Len(recs), p \in PhoneValues : AddPhone(r, p)
    \/ \E r \in 1..Len(recs), p \in PhoneValues :
           \E i \in 1..Len(recs[r].phones) : UpdatePhone(r, i, p)
    \/ \E r \in 1..Len(recs), p \in PhoneValues :
           \E i \in 1..Len(recs[r].phones) : AssignValue(r, i, p)
    \/ NextCommand

SpecPhone == Init /\ [][NextPhone]_vars

(* Birthday strings given to Birthday and to the Birthday of a record.     *)
BNoLeapDay == <<"2", "9", ".", "0", "2", ".", "2", "0", "2", "3">>
BirthdayValues == BirthdayInputs \cup {BNoLeapDay}

NextBirthdayValue ==
    \/ \E u \in {Al, Bo} : NewRecord(u)
    \/ \E b \in BirthdayValues : NewBirthday(b)
    \/ \E r \in 1..Len(recs), b \in BirthdayValues : AddBirthday(r, b)
    \/ \E r \in 1..Len(recs), b \in BirthdayValues : AssignBirthdayValue(r, b)
    \/ NextCommand

SpecBirthdayValue == Init /\ [][NextBirthdayValue]_vars

(* The listing of a directory whose names differ in length.               *)
Bella == <<"B", "e", "l", "l", "a">>
Deb   == <<"D", "e", "b">>
RenderNames == {Al, Bella, Deb}
RenderItems ==
    {<<>>, <<<<Al, P1>>>>, <<<<Bella, P1>>, <<Al, P2>>>>, <<<<Al, P2>>, <<Deb, <<>>>>>>}

NextRender ==
    \/ \E u \in RenderNames, p \in {P1, P2} : AddContact(u, p)
    \/ \E u \in RenderNames : Delete(u)
    \/ Str
    \/ \E items \in RenderItems : FormatColumnsOutput(items)
    \/ NextCommand

SpecRender == Init /\ [][NextRender]_vars

(* The birthdays of a whole year ahead, asked on each of the six days.     *)
NextWholeYear ==
    \/ \E u \in UpcomingNames : AddContact(u, P1)
    \/ \E r \in 1..Len(recs), b \in UpcomingBirthdays : AddBirthday(r, b)
    \/ \E today \in {T1, T2, T3, T4, T5, T6} :
           GetUpcomingBirthdaysWithin(Ok(today), YearPeriod)
    \/ NextCommand

SpecWholeYear == Init /\ [][NextWholeYear]_vars

(* Strings cut to every length from -1 up, and the names too long for a   *)
(* record.                                                                 *)
HelloWorld == <<"H", "e", "l", "l", "o", " ", "w", "o", "r", "l", "d", "!">>
NameOverMixed == Al \o Repeated("c", NAME_MAX_LENGTH)
TruncateStrings ==
    {<<>>, <<"a", "b", "c">>, HelloWorld, Repeated("x", MAX_DISPLAY_NAME_LEN),
     Repeated("y", MAX_DISPLAY_NAME_LEN + 1), NameOver}
TruncateSuffixes == {<<>>, Ellipsis, <<"#">>, P1}

NextTruncate ==
    \/ \E string \in TruncateStrings, max_length \in (-1)..MaxTruncateLength,
          suffix \in TruncateSuffixes, include_suffix_in_max_length \in BOOLEAN :
           TruncateString(string, max_length, suffix, include_suffix_in_max_length)
    \/ \E u \in {Al, NameMax, NameOver, NameOverSp, NameOverMixed} : NewRecord(u)
    \/ NextCommand

SpecTruncate == Init /\ [][NextTruncate]_vars

(* ====================================================================== *)
(* Properties                                                              *)
(* ====================================================================== *)

\* the values of a sequence
Range(seq) == {seq[i] : i \in 1..Len(seq)}

\* a string with exactly ten digit characters in it
TenDigits(p) == Cardinality({i \in 1..Len(p) : p[i] \in Digits}) = 10

\* the keys of a directory that equal `name` once both are lowercased
SameIgnoringCase(contacts, name) ==
    {contacts[i].key : i \in {j \in 1..Len(contacts) : Lower(contacts[j].key) = Lower(name)}}

\* C1: add_record(record) raises DuplicateContact and leaves the directory as it
\* was when a key equals the record's name exactly, or only case-insensitively
\* (the error then names the stored key); otherwise the record is appended
\* under its name and "Contact added." is returned.
C1_AddRecord ==
    (call.op = "add_record" /\ call.args[1] # NotARecord) =>
        LET r    == call.args[1]
            name == pre.recs[r].name
        IN /\ recs = pre.recs
           /\ IF name \in Range(Keys(pre.data))
              THEN ret = Err("DuplicateContact", <<name>>) /\ data = pre.data
              ELSE IF SameIgnoringCase(pre.data, name) # {}
              THEN /\ ret.kind = "DuplicateContact"
                   /\ Len(ret.val) = 2
                   /\ ret.val[1] = name
                   /\ ret.val[2] \in SameIgnoringCase(pre.data, name)
                   /\ data = pre.data
              ELSE /\ ret = Ok(MSG_CONTACT_ADDED)
                   /\ data = Append(pre.data, [key |-> name, rec |-> r])

\* a record refused because its name is stored in another case
C1_Witness ==
    /\ call.op = "add_record"
    /\ ret.kind = "DuplicateContact"
    /\ Len(ret.val) = 2
    /\ ret.val[1] # ret.val[2]

\* C2: in a non-empty directory find(name) returns a record exactly when name
\* is a stored key, and then the record stored under it; a key equal to name
\* only case-insensitively gives NotFoundDidYouMean with that key; no such key
\* gives ContactNotFound.
C2_Find ==
    (call.op = "find" /\ pre.data # <<>>) =>
        LET name == call.args[1] IN
        /\ data = pre.data /\ recs = pre.recs
        /\ ret.kind = "ok" <=> name \in Range(Keys(data))
        /\ ret.kind = "ok" =>
               /\ [key |-> name, rec |-> ret.val] \in Range(data)
               /\ recs[ret.val].name = name
        /\ (name \notin Range(Keys(data)) /\ SameIgnoringCase(data, name) # {}) =>
               /\ ret.kind = "NotFoundDidYouMean"
               /\ ret.val[1] = name
               /\ ret.val[2] \in SameIgnoringCase(data, name)
        /\ SameIgnoringCase(data, name) = {} => ret = Err("ContactNotFound", <<name>>)

\* the second of two stored records found by its exact name
C2_Witness ==
    /\ call.op = "find"
    /\ ret.kind = "ok"
    /\ Len(data) = 2
    /\ data[2].key = call.args[1]

\* C3 as claimed: delete on an empty directory raises DirectoryEmpty.
C3_DeleteEmptyIsDirectoryEmpty ==
    (call.op = "delete" /\ pre.data = <<>>) => ret.kind = "DirectoryEmpty"

\* C3: delete on an empty directory raises ContactNotFound for the name asked
\* (delete has no empty-book guard) and the directory stays empty.
C3_DeleteEmptyIsNotFound ==
    (call.op = "delete" /\ pre.data = <<>>) =>
        ret = Err("ContactNotFound", <<call.args[1]>>) /\ data = <<>>

\* delete on a directory with no record in it, some record having been made
C3_Witness ==
    /\ call.op = "delete"
    /\ pre.data = <<>>
    /\ Len(recs) > 0
    /\ IsErr(ret)

\* C4: on an empty directory __str__, find and find_match (the empty term
\* included) all raise DirectoryEmpty.
C4_EmptyGuards ==
    (call.op \in {"__str__", "find", "find_match"} /\ pre.data = <<>>) =>
        ret = Err("DirectoryEmpty", <<>>) /\ data = <<>> /\ recs = pre.recs

\* a search with the empty term on a directory emptied of its records
C4_Witness ==
    /\ call.op = "find_match"
    /\ call.args[1] = <<>>
    /\ pre.data = <<>>
    /\ Len(recs) > 0
    /\ ret.kind = "DirectoryEmpty"

\* C5: delete(name) with name a stored key removes that entry and no other and
\* returns "Contact deleted."; any other delete raises and leaves the directory
\* as it was.
C5_Delete ==
    call.op = "delete" =>
        LET name == call.args[1] IN
        /\ recs = pre.recs
        /\ IF name \in Range(Keys(pre.data))
           THEN /\ ret = Ok(MSG_CONTACT_DELETED)
                /\ data = SelectSeq(pre.data, LAMBDA e : e.key # name)
                /\ Len(data) = Len(pre.data) - 1
           ELSE IsErr(ret) /\ data = pre.data

\* one of two stored records deleted
C5_Witness ==
    /\ call.op = "delete"
    /\ ret.kind = "ok"
    /\ Len(pre.data) = 2
    /\ Len(data) = 1

\* C6: a record in the directory stays there under its name, as the same
\* record, through every step of every operation (add, find, search, render,
\* upcoming birthdays, phone and birthday operations, the contact manager),
\* successful or failing; the one step that takes it out is a successful
\* delete called with exactly its name.
C6_StaysUntilDeleted ==
    [][\A i \in 1..Len(data) :
           \/ /\ \E j \in 1..Len(data') : data'[j] = data[i]
              /\ recs'[data[i].rec].name = data[i].key
           \/ /\ call'.op = "delete"
              /\ call'.args = <<data[i].key>>
              /\ ret' = Ok(MSG_CONTACT_DELETED)]_vars

\* a birthday set on the second of two records of the directory
C6_Witness ==
    /\ call.op = "add_birthday"
    /\ ret = Ok(MSG_BIRTHDAY_ADDED)
    /\ Len(data) = 2
    /\ data[2].rec = call.args[1]
    /\ pre.data = data

\* C7: no record ever holds two Phones with the same string value.
C7_NoDuplicatePhones ==
    \A r \in 1..Len(recs) :
        \A i, j \in 1..Len(recs[r].phones) :
            i # j => recs[r].phones[i] # recs[r].phones[j]

\* an edit towards a number the record already holds, refused
C7_Witness ==
    /\ call.op = "edit_phone"
    /\ ret.kind = "DuplicatePhone"
    /\ Len(recs[call.args[1]].phones) = 2
    /\ call.args[2] # call.args[3]

\* C8: add_phone(number) on a record holding that very string raises
\* DuplicatePhone and leaves the list as it was; otherwise a valid number is
\* appended at the end and "Phone added." is returned.
C8_AddPhone ==
    call.op = "add_phone" =>
        LET r      == call.args[1]
            number == call.args[2]
            before == pre.recs[r].phones
            after  == recs[r].phones
        IN /\ \A o \in 1..Len(recs) : o # r => recs[o] = pre.recs[o]
           /\ IF number \in Range(before)
              THEN ret.kind = "DuplicatePhone" /\ after = before
              ELSE IF TenDigits(number)
              THEN ret = Ok(MSG_PHONE_ADDED) /\ after = Append(before, number)
              ELSE IsErr(ret) /\ after = before

\* a second, different phone added to a record
C8_Witness ==
    /\ call.op = "add_phone"
    /\ ret.kind = "ok"
    /\ Len(pre.recs[call.args[1]].phones) = 1

\* C9: a successful edit_phone(old, new) puts new where old was: the length
\* and every other phone are as before, find_phone(old) gives None and
\* find_phone(new) gives the phone at that position.
C9_EditPhone ==
    (call.op = "edit_phone" /\ ret.kind = "ok") =>
        LET r      == call.args[1]
            old    == call.args[2]
            new    == call.args[3]
            before == pre.recs[r].phones
            after  == recs[r].phones
        IN /\ old \in Range(before)
           /\ Len(after) = Len(before)
           /\ \A i \in 1..Len(before) :
                  after[i] = IF before[i] = old THEN new ELSE before[i]
           /\ IsNone(find_phone(recs[r], old))
           /\ \E i \in 1..Len(before) :
                  before[i] = old /\ find_phone(recs[r], new) = Ok(<<i, new>>)

\* the first of two phones edited
C9_Witness ==
    /\ call.op = "edit_phone"
    /\ ret.kind = "ok"
    /\ Len(recs[call.args[1]].phones) = 2
    /\ recs[call.args[1]].phones[1] = call.args[3]

\* C10 as claimed: edit_phone raises DuplicatePhone exactly when new is held
\* at a position other than the one holding old.
C10_DuplicateOnlyElsewhere ==
    call.op = "edit_phone" =>
        LET before == pre.recs[call.args[1]].phones
            old    == call.args[2]
            new    == call.args[3]
        IN ret.kind = "DuplicatePhone" <=>
               \E i \in 1..Len(before) : before[i] = new /\ before[i] # old

\* C10: edit_phone raises DuplicatePhone exactly when new is held anywhere in
\* the record, the position holding old included; it raises PhoneNotFound when
\* neither old nor new is held; every edit_phone that raises, one with an
\* invalid new number included, leaves the list as it was.
C10_EditPhoneFailures ==
    call.op = "edit_phone" =>
        LET r      == call.args[1]
            before == pre.recs[r].phones
            old    == call.args[2]
            new    == call.args[3]
        IN /\ ret.kind = "DuplicatePhone" <=> new \in Range(before)
           /\ (old \notin Range(before) /\ new \notin Range(before)) =>
                  ret = Err("PhoneNotFound", <<old>>)
           /\ (old \in Range(before) /\ new \notin Range(before) /\ ~TenDigits(new)) =>
                  ret.kind \in {"InvalidFormat", "EmptyField"}
           /\ IsErr(ret) => recs = pre.recs

\* a held phone edited to its own value, refused as a duplicate
C10_Witness ==
    /\ call.op = "edit_phone"
    /\ call.args[2] = call.args[3]
    /\ call.args[2] \in Range(pre.recs[call.args[1]].phones)
    /\ ret.kind = "DuplicatePhone"

\* C11: remove_phone(number) raises PhoneNotFound and leaves the list as it
\* was when no Phone holds exactly that string; otherwise it takes out that one
\* Phone, keeps the others in their order and returns "Phone deleted.".
C11_RemovePhone ==
    call.op = "remove_phone" =>
        LET r      == call.args[1]
            number == call.args[2]
            before == pre.recs[r].phones
            after  == recs[r].phones
        IN /\ \A o \in 1..Len(recs) : o # r => recs[o] = pre.recs[o]
           /\ recs[r].name = pre.recs[r].name
           /\ IF number \in Range(before)
              THEN /\ ret = Ok(MSG_PHONE_DELETED)
                   /\ after = SelectSeq(before, LAMBDA p : p # number)
                   /\ Len(after) = Len(before) - 1
              ELSE ret = Err("PhoneNotFound", <<number>>) /\ after = before

\* the first of two phones removed
C11_Witness ==
    /\ call.op = "remove_phone"
    /\ ret.kind = "ok"
    /\ Len(pre.recs[call.args[1]].phones) = 2
    /\ pre.recs[call.args[1]].phones[1] = call.args[2]

\* the date each date string of the inputs stands for, <<>> if none
DateWritten(date_str) ==
    CASE date_str = B1 -> <<[year |-> 2000, month |-> 2, day |-> 29]>>
      [] date_str \in {B2, B2Short} -> <<[year |-> 1999, month |-> 3, day |-> 2]>>
      [] date_str = BToday -> <<[year |-> 2024, month |-> 2, day |-> 26]>>
      [] date_str = BTomorrow -> <<[year |-> 2024, month |-> 2, day |-> 27]>>
      [] date_str = BFuture -> <<[year |-> 2200, month |-> 1, day |-> 1]>>
      [] date_str = T1 -> <<[year |-> 2025, month |-> 1, day |-> 1]>>
      [] date_str = T2 -> <<[year |-> 2024, month |-> 12, day |-> 28]>>
      [] date_str = T3 -> <<[year |-> 2025, month |-> 12, day |-> 30]>>
      [] date_str = T4 -> <<[year |-> 2023, month |-> 2, day |-> 25]>>
      [] date_str = T5 -> <<[year |-> 2023, month |-> 12, day |-> 31]>>
      [] date_str = T6 -> <<[year |-> 2024, month |-> 3, day |-> 1]>>
      [] OTHER -> <<>>

\* C12: add_birthday(date) returns "Birthday added." only when no birthday was
\* set and "Birthday updated." only when one was set and the new date differs
\* from it; it raises DuplicateBirthday when the new date, however written,
\* equals the stored one; after a DuplicateBirthday, an InvalidFormat or a
\* FutureDate failure the birthday, set or not, is as it was.
C12_AddBirthday ==
    call.op = "add_birthday" =>
        LET r       == call.args[1]
            written == DateWritten(call.args[2])
            before  == pre.recs[r].birthday
            after   == recs[r].birthday
        IN /\ ret = Ok(MSG_BIRTHDAY_ADDED) => IsNone(before)
           /\ ret = Ok(MSG_BIRTHDAY_UPDATED) => ~IsNone(before) /\ after # before
           /\ ret.kind = "ok" => written # <<>> /\ after = Ok(written[1])
           /\ (written # <<>> /\ before = Ok(written[1])) =>
                  ret.kind = "DuplicateBirthday"
           /\ written = <<>> => ret.kind = "InvalidFormat"
           /\ (written # <<>> /\ written[1].year > 2024) => ret.kind = "FutureDate"
           /\ call.args[2] = BTomorrow => ret.kind = "FutureDate"
           /\ ret.kind \in {"ok", "DuplicateBirthday", "InvalidFormat", "FutureDate"}
           /\ IsErr(ret) => recs = pre.recs
           /\ \A o \in 1..Len(recs) : o # r => recs[o] = pre.recs[o]
           /\ recs[r].name = pre.recs[r].name /\ recs[r].phones = pre.recs[r].phones

\* the stored date given again in another spelling, refused
C12_Witness ==
    /\ call.op = "add_birthday"
    /\ call.args[2] = B2Short
    /\ pre.recs[call.args[1]].birthday = Birthday(B2)
    /\ ret.kind = "DuplicateBirthday"

\* C13: an add_contact that fails (name invalid, number invalid, number held
\* already by the contact, name equal to a key once trimmed or in another
\* case) leaves the directory and every record in it as they were; no
\* add_contact puts a record without phones into the directory.
C13_AddContactFailure ==
    call.op = "add_contact" =>
        LET username == call.args[1]
            number   == call.args[2]
            known    == username \in Range(Keys(pre.data))
        IN /\ IsErr(ret) =>
                  /\ data = pre.data
                  /\ \A i \in 1..Len(data) : recs[data[i].rec] = pre.recs[data[i].rec]
           /\ ~TenDigits(number) => IsErr(ret)
           /\ (~known /\ Len(Strip(username)) < NAME_MIN_LENGTH) => IsErr(ret)
           /\ (~known /\ SameIgnoringCase(pre.data, Strip(username)) # {}) =>
                  /\ IsErr(ret)
                  /\ TenDigits(number) => ret.kind = "DuplicateContact"
           /\ (known /\ \E i \in 1..Len(pre.data) :
                            /\ pre.data[i].key = username
                            /\ number \in Range(pre.recs[pre.data[i].rec].phones)) =>
                  ret.kind = "DuplicatePhone"
           /\ \A i \in 1..Len(data) :
                  data[i] \notin Range(pre.data) => recs[data[i].rec].phones # <<>>

\* a new name with an invalid number, refused on a directory that has a record
C13_Witness ==
    /\ call.op = "add_contact"
    /\ call.args = <<Bo, PBad>>
    /\ Bo \notin Range(Keys(pre.data))
    /\ Len(pre.data) = 1
    /\ ret.kind = "InvalidFormat"

\* t occurs in s, character for character
OccursIn(t, s) ==
    \E k \in 0..(Len(s) - Len(t)) : \A j \in 1..Len(t) : s[k + j] = t[j]

\* the entries of a directory that a search term selects
Selected(rs, contacts, term) ==
    {i \in 1..Len(contacts) :
        \/ term = <<>>
        \/ OccursIn(Lower(term), Lower(contacts[i].key))
        \/ \E k \in 1..Len(rs[contacts[i].rec].phones) :
               OccursIn(term, rs[contacts[i].rec].phones[k])}

\* C14: on a non-empty directory find_match(term) returns exactly the records
\* whose name contains the term whatever the case, or one of whose phones
\* contains it as written, each once even when both hold; the empty term
\* returns every record; "No matches found." is returned exactly when no
\* record is selected.
C14_FindMatch ==
    (call.op = "find_match" /\ pre.data # <<>>) =>
        LET selected == Selected(pre.recs, pre.data, call.args[1]) IN
        /\ data = pre.data /\ recs = pre.recs
        /\ IF selected = {} THEN ret = Ok(MSG_NO_MATCHES)
           ELSE /\ ret.kind = "ok"
                /\ Len(ret.val.records) = Cardinality(selected)
                /\ Range(ret.val.records) = {data[i].rec : i \in selected}
                /\ Len(ret.val.lines) = Cardinality(selected)
        /\ call.args[1] = <<>> => selected = 1..Len(data)

\* the term "9" finding A9 once, by its name and by its phone, and another
\* record by its phone alone
C14_Witness ==
    /\ call.op = "find_match"
    /\ call.args[1] = <<"9">>
    /\ Len(data) = 2
    /\ \E i \in 1..2 : data[i].key = A9 /\ P1 \in Range(recs[data[i].rec].phones)
    /\ Len(ret.val.records) = 2

\* the place of each name of SearchNames in the order of the lowercased names:
\* "a9" < "al" < "bo"
NameRank(name) == CASE name = A9 -> 1 [] name = al -> 2 [] name = Bo -> 3

\* C15: the records find_match returns, for the empty term as for any other,
\* are in ascending order of their lowercased names, whatever the order in
\* which they entered the directory.
C15_FindMatchSorted ==
    (/\ call.op = "find_match"
     /\ pre.data # <<>>
     /\ Selected(pre.recs, pre.data, call.args[1]) # {}) =>
        \A i, j \in 1..Len(ret.val.records) :
            i < j => NameRank(recs[ret.val.records[i]].name)
                         < NameRank(recs[ret.val.records[j]].name)

\* al entered after Bo and returned before it
C15_Witness ==
    /\ call.op = "find_match"
    /\ call.args[1] = <<>>
    /\ Len(data) = 2
    /\ data[1].key = Bo /\ data[2].key = al
    /\ ret.val.records = <<data[2].rec, data[1].rec>>

\* the years of the inputs that are leap years: 2024 alone of 2023..2026
LeapYear(year) == year = 2024

LeapDay(d) == d.month = 2 /\ d.day = 29

\* a date carried to `year`: 29 February becomes 1 March where the year has none
OccurrenceIn(d, year) ==
    IF LeapDay(d) /\ ~LeapYear(year) THEN [year |-> year, month |-> 3, day |-> 1]
    ELSE [d EXCEPT !.year = year]

\* the number of days from a to b
DaysFrom(a, b) == ToOrdinal(b) - ToOrdinal(a)

\* the `today` of the get_upcoming_birthdays call in progress
AskedToday ==
    IF IsNone(call.args[1]) THEN Today ELSE DateWritten(call.args[1].val)[1]

\* 1 January 2000 was a Saturday
IsSaturday(d) == DaysFrom([year |-> 2000, month |-> 1, day |-> 1], d) % 7 = 0
IsSunday(d) == DaysFrom([year |-> 2000, month |-> 1, day |-> 1], d) % 7 = 1

\* the date reported for a projected date
Reported(d) ==
    format_date_str(PlusDays(d, IF IsSaturday(d) THEN 2 ELSE IF IsSunday(d) THEN 1 ELSE 0))

\* the entry of the list returned for a name, <<>> when there is none
EntriesFor(name) == SelectSeq(ret.val, LAMBDA e : e.name = name)

\* the birthday's occurrence in the target year, the target year being the
\* year of today, or the next when the occurrence in today's year is before today
TargetYearOccurrence(birthday, today) ==
    IF DaysFrom(today, OccurrenceIn(birthday, today.year)) < 0
    THEN OccurrenceIn(birthday, today.year + 1)
    ELSE OccurrenceIn(birthday, today.year)

\* C16: a record born on 29 February is projected on 29 February of the
\* target year when that year is a leap year and on 1 March of it otherwise,
\* the target year being today's or, when that projection is before today,
\* the next one with the rule applied again: it is listed, under that date
\* (shifted off a weekend), exactly when that date is within the period.
C16_LeapDayProjection ==
    (call.op = "get_upcoming_birthdays" /\ ret.kind = "ok") =>
        \A i \in 1..Len(data) :
            LET birthday == recs[data[i].rec].birthday IN
            (~IsNone(birthday) /\ LeapDay(birthday.val)) =>
                LET d == TargetYearOccurrence(birthday.val, AskedToday) IN
                IF DaysFrom(AskedToday, d) \in 0..call.args[2]
                THEN EntriesFor(data[i].key) =
                         <<[name |-> data[i].key, congratulation_date |-> Reported(d)]>>
                ELSE EntriesFor(data[i].key) = <<>>

\* the occurrence of a birthday in today's year, moved to the next year
\* when it is before today
Occurrence(birthday, today) ==
    IF DaysFrom(today, OccurrenceIn(birthday, today.year)) < 0
    THEN OccurrenceIn(OccurrenceIn(birthday, today.year), today.year + 1)
    ELSE OccurrenceIn(birthday, today.year)

\* the entries of the directory whose occurrence is within the period
Upcoming ==
    {i \in 1..Len(data) :
        /\ ~IsNone(recs[data[i].rec].birthday)
        /\ DaysFrom(AskedToday, Occurrence(recs[data[i].rec].birthday.val, AskedToday))
               \in 0..call.args[2]}

\* C17: get_upcoming_birthdays lists a record exactly when it has a birthday
\* whose occurrence d, before any weekend shift, satisfies
\* today <= d <= today + period; each such record is listed once, records
\* without a birthday never, and a record whose shifted date falls after the
\* period is still listed.
C17_UpcomingMembership ==
    (call.op = "get_upcoming_birthdays" /\ ret.kind = "ok") =>
        /\ Len(ret.val) = Cardinality(Upcoming)
        /\ \A i \in 1..Len(data) :
               Len(EntriesFor(data[i].key)) = IF i \in Upcoming THEN 1 ELSE 0
        /\ recs = pre.recs /\ data = pre.data

\* today is Saturday 28.12.2024 and the period 7 days: a birthday on
\* Saturday 04.01.2025 is listed under Monday 06.01.2025, nine days ahead,
\* next to a record that has no birthday
C17_Witness ==
    /\ call.op = "get_upcoming_birthdays"
    /\ call.args = <<Ok(T2), UPCOMING_PERIOD_DAYS>>
    /\ Len(data) = 2
    /\ IsNone(recs[data[1].rec].birthday)
    /\ recs[data[2].rec].birthday = Ok([year |-> 2001, month |-> 1, day |-> 4])
    /\ ret = Ok(<<[name |-> data[2].key,
                   congratulation_date |-> <<"0","6",".","0","1",".","2","0","2","5">>]>>)

\* the date a listed entry was reported under
ReportedDate(entry) == parse_date(entry.congratulation_date).val

\* the place in the directory of the record a listed entry is about
PlaceOf(entry) == CHOOSE i \in 1..Len(data) : data[i].key = entry.name

\* C18: every date get_upcoming_birthdays returns is a Monday to Friday: an
\* occurrence on a Saturday is reported two days later, one on a Sunday one
\* day later, any other on the day itself.
C18_NoWeekendDates ==
    (call.op = "get_upcoming_birthdays" /\ ret.kind = "ok") =>
        \A k \in 1..Len(ret.val) :
            LET d == Occurrence(recs[data[PlaceOf(ret.val[k])].rec].birthday.val,
                                AskedToday)
            IN /\ ~IsSaturday(ReportedDate(ret.val[k]))
               /\ ~IsSunday(ReportedDate(ret.val[k]))
               /\ DaysFrom(d, ReportedDate(ret.val[k])) =
                      IF IsSaturday(d) THEN 2 ELSE IF IsSunday(d) THEN 1 ELSE 0

\* today is 01.01.2025: birthdays on Saturday 04.01 and Sunday 05.01 are both
\* reported under Monday 06.01.2025
C18_Witness ==
    /\ call.op = "get_upcoming_birthdays"
    /\ call.args = <<Ok(T1), UPCOMING_PERIOD_DAYS>>
    /\ Len(data) = 2
    /\ recs[data[1].rec].birthday = Ok([year |-> 2001, month |-> 1, day |-> 4])
    /\ recs[data[2].rec].birthday = Ok([year |-> 1990, month |-> 1, day |-> 5])
    /\ ret = Ok(<<[name |-> data[1].key,
                   congratulation_date |-> <<"0","6",".","0","1",".","2","0","2","5">>],
                  [name |-> data[2].key,
                   congratulation_date |-> <<"0","6",".","0","1",".","2","0","2","5">>]>>)

\* C19: the list get_upcoming_birthdays returns is in ascending order of the
\* reported date, compared as dates so that January of the next year follows
\* December; entries reported under the same date keep the order in which
\* their records were added to the directory.
C19_SortedByDate ==
    (call.op = "get_upcoming_birthdays" /\ ret.kind = "ok") =>
        \A k, l \in 1..Len(ret.val) :
            k < l =>
                \/ DaysFrom(ReportedDate(ret.val[k]), ReportedDate(ret.val[l])) > 0
                \/ /\ ReportedDate(ret.val[k]) = ReportedDate(ret.val[l])
                   /\ PlaceOf(ret.val[k]) < PlaceOf(ret.val[l])

\* today is 30.12.2025: a record with a birthday on Monday 05.01 was added
\* before one with a birthday on Sunday 04.01; both are reported under
\* 05.01.2026 and the one added first is listed first
C19_Witness ==
    /\ call.op = "get_upcoming_birthdays"
    /\ call.args = <<Ok(T3), UPCOMING_PERIOD_DAYS>>
    /\ Len(data) = 2
    /\ recs[data[1].rec].birthday = Ok([year |-> 1990, month |-> 1, day |-> 5])
    /\ recs[data[2].rec].birthday = Ok([year |-> 2001, month |-> 1, day |-> 4])
    /\ ret = Ok(<<[name |-> data[1].key,
                   congratulation_date |-> <<"0","5",".","0","1",".","2","0","2","6">>],
                  [name |-> data[2].key,
                   congratulation_date |-> <<"0","5",".","0","1",".","2","0","2","6">>]>>)

\* what is left of each name of LengthNames without its surrounding whitespace
NameWritten(username) ==
    CASE username = NameBlank -> <<>>
      [] username = NameOneSp -> <<"A">>
      [] username = AlSp -> <<"A", "l">>
      [] username = NameMaxSp -> [i \in 1..50 |-> "b"]
      [] username = NameOverSp -> [i \in 1..51 |-> "d"]
      [] OTHER -> username

\* C20: a name is accepted exactly when, without its surrounding whitespace,
\* it is 2 to 50 symbols long; an empty one fails with EmptyField, one of a
\* single symbol with TooShort, one of more than 50 with TooLong; the name
\* stored is the whole trimmed string, never a shortened one.
C20_NameLength ==
    call.op = "Record" =>
        LET name == NameWritten(call.args[1]) IN
        /\ ret.kind = "ok" <=> Len(name) \in 2..50
        /\ Len(name) = 0 => ret.kind = "EmptyField"
        /\ Len(name) = 1 => ret.kind = "TooShort"
        /\ Len(name) > 50 => ret.kind = "TooLong"
        /\ ret.kind = "ok" =>
               /\ Len(recs) = Len(pre.recs) + 1
               /\ recs[ret.val].name = name
               /\ \A r \in 1..Len(pre.recs) : recs[r] = pre.recs[r]
        /\ ret.kind # "ok" => recs = pre.recs

\* a name of 50 symbols between whitespace is accepted and stored whole
C20_Witness ==
    /\ call.op = "Record"
    /\ call.args[1] = NameMaxSp
    /\ ret.kind = "ok"
    /\ Len(recs[ret.val].name) = 50
    /\ recs[ret.val].name[1] = "b"
    /\ recs[ret.val].name[50] = "b"

\* the number of digit characters in each number of PhoneValues
DigitsWritten(phone) ==
    CASE phone \in {P1, PPlus, PGrouped, PPadded} -> 10
      [] phone = PNine -> 9
      [] phone = PEleven -> 11
      [] phone = PBad -> 3
      [] OTHER -> 0

\* the numbers of PhoneValues that are empty or whitespace only
BlankWritten(phone) == phone \in {<<>>, PBlank}

\* C21: a phone string is accepted exactly when it is not empty after
\* trimming and has exactly 10 digit characters once every other character
\* is removed; an empty or whitespace-only string fails with EmptyField, any
\* other digit count with InvalidFormat.
C21_PhoneValidation ==
    call.op = "Phone" =>
        LET phone == call.args[1] IN
        /\ ret.kind = "ok" <=> (~BlankWritten(phone) /\ DigitsWritten(phone) = 10)
        /\ BlankWritten(phone) => ret.kind = "EmptyField"
        /\ (~BlankWritten(phone) /\ DigitsWritten(phone) # 10) =>
               ret.kind = "InvalidFormat"
        /\ recs = pre.recs /\ data = pre.data

\* a number of 10 digits in groups is accepted, as are 11 digits refused
C21_Witness ==
    /\ call.op = "Phone"
    /\ call.args[1] = PGrouped
    /\ ret.kind = "ok"

\* each valid number of PhoneValues without its surrounding whitespace
PhoneWritten(phone) == IF phone = PPadded THEN P2 ELSE phone

\* C22: the value held by the Phone created from a valid string p, and so
\* the value stored in the record by add_phone, is p without its surrounding
\* whitespace, inner characters unchanged.
C22_PhoneValueIsStripped ==
    /\ (call.op = "Phone" /\ ret.kind = "ok") =>
           ret.val = PhoneWritten(call.args[1])
    /\ (call.op = "add_phone" /\ ret.kind = "ok") =>
           recs[call.args[1]].phones[Len(recs[call.args[1]].phones)] =
               PhoneWritten(call.args[2])

AfterToday(d) ==
    \/ d.year > 2024
    \/ d.year = 2024 /\ d.month > 2
    \/ d.year = 2024 /\ d.month = 2 /\ d.day > 26

\* C24: a birthday string is accepted exactly when it is a real calendar
\* date written day.month.year and is not after today, today itself being
\* accepted; a string that does not parse gives InvalidFormat, a later date
\* FutureDate, and a failed assignment to a Birthday leaves its date as it was.
C24_BirthdayValidation ==
    call.op \in {"Birthday", "birthday_value"} =>
        LET value   == call.args[Len(call.args)]
            written == DateWritten(value)
        IN /\ (written = <<>>) <=> (ret.kind = "InvalidFormat")
           /\ (written # <<>> /\ AfterToday(written[1])) <=> (ret.kind = "FutureDate")
           /\ (written # <<>> /\ ~AfterToday(written[1])) <=> ~IsErr(ret)
           /\ call.op = "Birthday" =>
                  /\ recs = pre.recs
                  /\ ~IsErr(ret) => ret = Ok(written[1])
           /\ call.op = "birthday_value" =>
                  IF IsErr(ret) THEN recs = pre.recs
                  ELSE recs = [pre.recs EXCEPT ![call.args[1]].birthday = Ok(written[1])]

\* a Birthday set to today's date was assigned tomorrow's: the assignment
\* failed with FutureDate and the Birthday still holds today's date
C24_Witness ==
    /\ call.op = "birthday_value"
    /\ call.args[2] = BTomorrow
    /\ ret.kind = "FutureDate"
    /\ recs[call.args[1]].birthday = Ok(Today)

\* the length of the longest key of the directory
LongestName ==
    CHOOSE w \in {Len(data[i].key) : i \in 1..Len(data)} :
        \A i \in 1..Len(data) : Len(data[i].key) <= w

\* the phones of a record as they are listed
PhonesWritten(phones) ==
    CASE Len(phones) = 0 -> <<>>
      [] Len(phones) = 1 -> phones[1]
      [] Len(phones) = 2 -> phones[1] \o <<";", " ">> \o phones[2]

\* C25: the listing of a non-empty directory has a header with the number
\* of records and one line per record in insertion order; each line is the
\* offset, the name padded with spaces to the longest name, ' : ' and the
\* record's phones, so ' : ' starts in the same column on every line; the
\* formatting helper gives an empty body for no items.
C25_Listing ==
    /\ (call.op = "__str__" /\ pre.data # <<>>) =>
           /\ ret.kind = "ok"
           /\ ret.val.title[2] = Len(data)
           /\ Len(ret.val.lines) = Len(data)
           /\ \A i \in 1..Len(data) :
                  LET line == ret.val.lines[i]
                      name == recs[data[i].rec].name
                      col  == 2 + LongestName
                  IN /\ SubSeq(line, 1, 2) = <<" ", " ">>
                     /\ SubSeq(line, 3, 2 + Len(name)) = name
                     /\ \A k \in (3 + Len(name))..col : line[k] = " "
                     /\ SubSeq(line, col + 1, col + 3) = <<" ", ":", " ">>
                     /\ SubSeq(line, col + 4, Len(line)) =
                            PhonesWritten(recs[data[i].rec].phones)
           /\ recs = pre.recs /\ data = pre.data
    /\ call.op = "format_columns_output" =>
           /\ call.args[1] = <<>> => ret = Ok(<<>>)
           /\ call.args[1] # <<>> =>
                  Cardinality({k \in 1..Len(ret.val) : ret.val[k] = "\n"}) =
                      Len(call.args[1]) - 1

\* Bella was added before Al: the listing of the two has Bella's line first
\* and Al's name padded to five characters
C25_Witness ==
    /\ call.op = "__str__"
    /\ ret.kind = "ok"
    /\ ret.val.title = <<"You have", 2, "contacts">>
    /\ ret.val.lines =
           << <<" ", " ", "B", "e", "l", "l", "a", " ", ":", " ">> \o P1,
              <<" ", " ", "A", "l", " ", " ", " ", " ", ":", " ">> \o P1
                  \o <<";", " ">> \o P2 >>

\* the names of NameInputs that pass the length check, and what they are
\* without surrounding whitespace
ValidNameWritten(username) == username \in {Al, al, Bo, AlSp}
TrimmedNameWritten(username) == IF username = AlSp THEN Al ELSE username

\* C26: add_contact(name, phone, book), when a record is stored under exactly
\* that name, appends the phone to it, creates no record and returns
\* 'Phone added.'; otherwise it creates a record with exactly that one phone,
\* puts it last in the directory and returns 'Contact added.'; every record
\* the flow inserts has a phone when it is inserted.
C26_AddContact ==
    call.op = "add_contact" =>
        LET username == call.args[1]
            number   == call.args[2]
            known    == {i \in 1..Len(pre.data) : pre.data[i].key = username}
        IN /\ known # {} =>
                  LET r == pre.data[CHOOSE i \in known : TRUE].rec IN
                  /\ data = pre.data
                  /\ Len(recs) = Len(pre.recs)
                  /\ \A q \in 1..Len(recs) : q # r => recs[q] = pre.recs[q]
                  /\ ret.kind = "ok" => ret.val = "Phone added."
                  /\ (TenDigits(number) /\ number \notin Range(pre.recs[r].phones)) =>
                         /\ ret.kind = "ok"
                         /\ recs[r] = [pre.recs[r] EXCEPT
                                          !.phones = Append(@, number)]
           /\ known = {} =>
                  /\ ret.kind = "ok" =>
                         /\ ret.val = "Contact added."
                         /\ Len(recs) = Len(pre.recs) + 1
                         /\ SubSeq(recs, 1, Len(pre.recs)) = pre.recs
                         /\ recs[Len(recs)] =
                                [name |-> TrimmedNameWritten(username),
                                 phones |-> <<number>>, birthday |-> None]
                         /\ data = Append(pre.data,
                                          [key |-> TrimmedNameWritten(username),
                                           rec |-> Len(recs)])
                  /\ ( /\ ValidNameWritten(username)
                       /\ TenDigits(number)
                       /\ SameIgnoringCase(pre.data, TrimmedNameWritten(username)) = {} ) =>
                         ret.kind = "ok"

\* a second number given for a stored name was appended to its record
C26_Witness ==
    /\ call.op = "add_contact"
    /\ call.args = <<Al, P2>>
    /\ ret = Ok("Phone added.")
    /\ Len(data) = 1 /\ data = pre.data
    /\ Len(recs) = 1
    /\ recs[1].phones = <<P1, P2>>

\* C27: with a period of 365 days get_upcoming_birthdays lists every record
\* that has a birthday exactly once, whatever today is, each under the next
\* occurrence of the birthday on or after today, moved off a weekend, and
\* the list is in ascending order of these dates across the year boundary.
C27_WholeYear ==
    (call.op = "get_upcoming_birthdays" /\ ret.kind = "ok" /\ call.args[2] = 365) =>
        /\ Len(ret.val) =
               Cardinality({i \in 1..Len(data) : ~IsNone(recs[data[i].rec].birthday)})
        /\ \A i \in 1..Len(data) :
               ~IsNone(recs[data[i].rec].birthday) =>
                   EntriesFor(data[i].key) =
                       <<[name |-> data[i].key,
                          congratulation_date |->
                              Reported(TargetYearOccurrence(
                                           recs[data[i].rec].birthday.val, AskedToday))]>>
        /\ \A k, l \in 1..Len(ret.val) :
               k < l => DaysFrom(ReportedDate(ret.val[k]), ReportedDate(ret.val[l])) >= 0

\* C28: truncate_string with the suffix counted in max_length never returns
\* more than max(max_length, 0) characters and returns a string of at most
\* max_length characters as it is; so the name in the TooLong error of a
\* name of more than 50 characters is its first 12 characters and '...',
\* 15 characters in all.
C28_Truncation ==
    /\ (call.op = "truncate_string" /\ call.args[4]) =>
           LET string     == call.args[1]
               max_length == call.args[2]
           IN /\ Len(ret.val) <= IF max_length > 0 THEN max_length ELSE 0
              /\ Len(string) <= max_length => ret.val = string
    /\ (call.op = "Record" /\ ret.kind = "TooLong") =>
           LET name == NameWritten(call.args[1]) IN
           /\ Len(ret.val) = 15
           /\ SubSeq(ret.val, 1, 12) = SubSeq(name, 1, 12)
           /\ SubSeq(ret.val, 13, 15) = <<".", ".", ".">>

\* a name of 52 characters was refused, shown as 'Alcccccccccc...'
C28_Witness ==
    /\ call.op = "Record"
    /\ call.args[1] = NameOverMixed
    /\ ret.kind = "TooLong"
    /\ ret.val = <<"A", "l", "c", "c", "c", "c", "c", "c", "c", "c", "c", "c",
                   ".", ".", ".">>

\* the names a key can be, numbered so that names differing only in the
\* case of their letters have the same number
FoldedWritten(name) ==
    CASE name \in {Al, al} -> 1
      [] name = Bo -> 2
      [] OTHER -> 0

\* C29: in every state of the directory reached by add_record, add_contact
\* and delete (and the operations on records and the look-ups between them)
\* no two keys are equal once case is ignored and every key is the name of
\* the record stored under it, so at most one key can match a name in the
\* case-insensitive scan of find and delete.
C29_KeysDistinctIgnoringCase ==
    /\ \A i, j \in 1..Len(data) :
           i # j => FoldedWritten(data[i].key) # FoldedWritten(data[j].key)
    /\ \A i \in 1..Len(data) :
           /\ FoldedWritten(data[i].key) # 0
           /\ data[i].key = recs[data[i].rec].name
    /\ \A name \in NameInputs :
           Cardinality({i \in 1..Len(data) : Lower(data[i].key) = Lower(name)}) <= 1

\* with Al and Bo stored, adding a contact named al was refused
C29_Witness ==
    /\ call.op = "add_contact"
    /\ call.args[1] = al
    /\ ret.kind = "DuplicateContact"
    /\ Keys(data) = <<Al, Bo>>

\* C30: after any sequence of add_phone, edit_phone and remove_phone on a
\* record every Phone of its list holds a number that passes validation,
\* exactly 10 digits: each insertion and each update in place validates the
\* new number before it is stored.
C30_PhonesStayValid ==
    /\ \A r \in 1..Len(recs) : \A i \in 1..Len(recs[r].phones) :
           /\ TenDigits(recs[r].phones[i])
           /\ recs[r].phones[i] \in {P1, P2, P1Sp}
    /\ (call.op \in {"add_phone", "edit_phone"} /\ ret.kind = "ok") =>
           TenDigits(call.args[Len(call.args)])

\* a stored number was to be replaced by one of three digits: the edit
\* failed and the record holds the number it had
C30_Witness ==
    /\ call.op = "edit_phone"
    /\ call.args = <<1, P1, PBad>>
    /\ ret.kind = "InvalidFormat"
    /\ recs[1].phones = <<P2, P1>>

====
